---- MODULE Spec2Model ----
(***************************************************************************)
(* Orderbook settlement contract (contracts/Orderbook.sol): the internal   *)
(* balance ledger, EIP-712 order commitments, partial-fill counters, the   *)
(* cancellation registry, and the single and batch fill executors.         *)
(*                                                                         *)
(* Every external call is one atomic step: the EVM runs a transaction to   *)
(* completion and a revert restores the storage and drops the logs of the  *)
(* whole call.  The handlers are operators on a storage record that is     *)
(* threaded through their statements; the action commits the record on     *)
(* success and discards it on revert.                                      *)
(*                                                                         *)
(* The relay (orderbook-ws-server) keeps a table of the signed orders it   *)
(* was sent and follows the events of the contract; its handlers are       *)
(* modelled the same way, as operators on the table.                       *)
(***************************************************************************)
EXTENDS Integers, Sequences, FiniteSets, TLC

VARIABLES
    balances,          \* mapping(address => mapping(address => uint256)) balances
    filledAmountSell,  \* mapping(bytes32 => uint256) filledAmountSell
    cancelledOrders,   \* mapping(bytes32 => bool) cancelledOrders
    erc20,             \* ERC20 _balances of the TestToken contracts: holder -> token -> amount
    now,               \* block.timestamp
    calls,             \* number of transactions sent since the initial state
    last,              \* receipt of the latest call: function, msg.sender, status, logs
    ordersTable,       \* the 'orders' table of the relay (OrderModel), by orderHash
    eventQueue,        \* events emitted by the contract, not yet handed to the relay's listeners
    retryQueue,        \* OrderbookContract.retryQueue
    retryRuns,         \* runs of OrderbookContract.processRetryQueue that await an event's processing
    server             \* OrderbookWebSocketServer: limiters, activeConnections, wss.clients

vars == <<balances, filledAmountSell, cancelledOrders, erc20, now, calls, last,
          ordersTable, eventQueue, retryQueue, retryRuns, server>>
relayVars == <<ordersTable, eventQueue, retryQueue, retryRuns, server>>
\* what the handlers of the orders table leave alone
connectionVars == <<retryRuns, server>>

-----------------------------------------------------------------------------
(* Bounds of the model *)

UintWidth == 6          \* uint256 scaled down to UintWidth bits
MaxAmount == 3          \* amounts passed to deposit, withdraw and fillOrder range over 0..MaxAmount
MaxTime == 1            \* block.timestamp ranges over 0..MaxTime
MaxBatchLen == 2        \* well-formed batches of up to MaxBatchLen elements are explored
MaxCalls == 2           \* at most MaxCalls transactions are sent after the initial state

MaxUint == 2^UintWidth - 1

(* Program constant *)
MAX_BATCH_SIZE == 5

-----------------------------------------------------------------------------
(* Addresses *)

ZeroAddress == "0x0"
Accounts == {"alice", "bob", "carol"}
Tokens == {"tokenA", "tokenB"}
Assets == Tokens \cup {ZeroAddress}
Orderbook == "orderbook"
Holders == Accounts \cup {Orderbook}
\* an address whose key nobody holds: what ecrecover yields for a signature
\* checked against a digest it was not made for
Stranger == "0xstranger"

(* Orders: the base order of the test-suite and its one-field variations *)

BaseOrder ==
    [maker |-> "alice", taker |-> ZeroAddress,
     tokenSell |-> "tokenA", tokenBuy |-> "tokenB",
     amountSell |-> 2, amountBuy |-> 3,
     expiration |-> 1, salt |-> 0]

\* the base order with its price lowered: an order alice never signs
TamperedOrder == [BaseOrder EXCEPT !.amountBuy = 1]

Orders ==
    {BaseOrder,
     TamperedOrder,
     [BaseOrder EXCEPT !.maker = "bob"],
     [BaseOrder EXCEPT !.taker = "bob"],
     [BaseOrder EXCEPT !.tokenBuy = "tokenA"],
     [BaseOrder EXCEPT !.amountSell = 0],
     [BaseOrder EXCEPT !.amountBuy = MaxUint],
     [BaseOrder EXCEPT !.expiration = 0],
     [BaseOrder EXCEPT !.salt = 1]}

-----------------------------------------------------------------------------
(* Signature & commitment verifier *)

ORDER_TYPEHASH == "Order(address maker,address taker,address tokenSell,address tokenBuy,uint256 amountSell,uint256 amountBuy,uint256 expiration,uint256 salt)"

\* keccak256 as a collision-free symbolic hash of its preimage
keccak256(preimage) == <<"keccak256", preimage>>

\* EIP712._hashTypedDataV4: binds the struct hash to the domain of this deployment
_hashTypedDataV4(structHash) ==
    keccak256(<<"\\x19\\x01", <<"Orderbook", "1", Orderbook>>, structHash>>)

\* mutant: the salt is left out of the struct hash
_orderHash_NoSalt(order) ==
    LET structHash == keccak256(<<ORDER_TYPEHASH,
                                  order.maker, order.taker,
                                  order.tokenSell, order.tokenBuy,
                                  order.amountSell, order.amountBuy,
                                  order.expiration>>)
    IN _hashTypedDataV4(structHash)

_orderHash(order) ==
    LET structHash == keccak256(<<ORDER_TYPEHASH,
                                  order.maker, order.taker,
                                  order.tokenSell, order.tokenBuy,
                                  order.amountSell, order.amountBuy,
                                  order.expiration, order.salt>>)
    IN _hashTypedDataV4(structHash)

Digests == {_orderHash(o) : o \in Orders}

\* a signature made off-chain with signer's key over digest
Sign(signer, digest) == [wellFormed |-> TRUE, signer |-> signer, digest |-> digest]
\* a byte string that is no 65-byte (r, s, v) signature
MalformedSignature == [wellFormed |-> FALSE, signer |-> ZeroAddress, digest |-> <<>>]

\* mutant: the signer is taken from the signature whatever digest it was made for
recover_AnyDigest(digest, signature) ==
    IF ~signature.wellFormed THEN [reverted |-> TRUE, signer |-> ZeroAddress]
    ELSE [reverted |-> FALSE, signer |-> signature.signer]

\* ECDSA.recover(digest, signature): reverts on a malformed signature,
\* yields the signer for the digest that was signed, an unrelated address otherwise
recover(digest, signature) ==
    IF ~signature.wellFormed THEN [reverted |-> TRUE, signer |-> ZeroAddress]
    ELSE IF signature.digest = digest THEN [reverted |-> FALSE, signer |-> signature.signer]
    ELSE [reverted |-> FALSE, signer |-> Stranger]

-----------------------------------------------------------------------------
(* Storage threaded through a call, and its outcome *)

Storage ==
    [balances |-> balances, filledAmountSell |-> filledAmountSell,
     cancelledOrders |-> cancelledOrders, erc20 |-> erc20, logs |-> <<>>]

Continue(st) == [status |-> "ok", st |-> st]
Revert(st, error) == [status |-> error, st |-> st]

PanicArithmetic == "Panic(0x11)"
PanicDivisionByZero == "Panic(0x12)"

-----------------------------------------------------------------------------
(* Balance ledger *)

\* TestToken (OpenZeppelin ERC20) transfer of amount from one holder to another
ERC20Transfer(st, token, from, to, amount) ==
    IF st.erc20[from][token] < amount
    THEN Revert(st, "TransferFailed")
    ELSE Continue([st EXCEPT !.erc20 =
            [[st.erc20 EXCEPT ![from][token] = @ - amount]
                       EXCEPT ![to][token] = @ + amount]])

deposit_IgnoresTransferResult(st, sender, token, amount) ==
    IF token = ZeroAddress THEN Revert(st, "InvalidTokenAddress")
    ELSE
    LET t == ERC20Transfer(st, token, sender, Orderbook, amount)
        s1 == [t.st EXCEPT !.balances[sender][token] = @ + amount]
        s2 == [s1 EXCEPT !.logs = Append(@, [event |-> "Deposit", user |-> sender,
                                             token |-> token, amount |-> amount])]
    IN Continue(s2)
\* mutant: the zero address passes validToken and is credited like a token
\* whose transfer does nothing
deposit_CreditsInvalidToken(st, sender, token, amount) ==
    LET t == IF token = ZeroAddress THEN Continue(st)
             ELSE ERC20Transfer(st, token, sender, Orderbook, amount) IN
    IF t.status # "ok" THEN t
    ELSE IF t.st.balances[sender][token] + amount > MaxUint THEN Revert(t.st, PanicArithmetic)
    ELSE
    LET s1 == [t.st EXCEPT !.balances[sender][token] = @ + amount]
        s2 == [s1 EXCEPT !.logs = Append(@, [event |-> "Deposit", user |-> sender,
                                             token |-> token, amount |-> amount])]
    IN Continue(s2)
deposit(st, sender, token, amount) ==
    IF token = ZeroAddress THEN Revert(st, "InvalidTokenAddress")
    ELSE
    LET t == ERC20Transfer(st, token, sender, Orderbook, amount) IN
    IF t.status # "ok" THEN t
    ELSE IF t.st.balances[sender][token] + amount > MaxUint THEN Revert(t.st, PanicArithmetic)
    ELSE
    LET s1 == [t.st EXCEPT !.balances[sender][token] = @ + amount]
        s2 == [s1 EXCEPT !.logs = Append(@, [event |-> "Deposit", user |-> sender,
                                             token |-> token, amount |-> amount])]
    IN Continue(s2)

withdraw_Unchecked(st, sender, token, amount) ==
    IF token = ZeroAddress THEN Revert(st, "InvalidTokenAddress")
    ELSE
    LET s1 == [st EXCEPT !.balances[sender][token] = @ - amount]
        t == ERC20Transfer(s1, token, Orderbook, sender, amount)
    IN
    IF t.status # "ok" THEN t
    ELSE Continue([t.st EXCEPT !.logs = Append(@, [event |-> "Withdrawal", user |-> sender,
                                                   token |-> token, amount |-> amount])])
withdraw(st, sender, token, amount) ==
    IF token = ZeroAddress THEN Revert(st, "InvalidTokenAddress")
    ELSE IF st.balances[sender][token] < amount THEN Revert(st, "InsufficientBalance")
    ELSE
    LET s1 == [st EXCEPT !.balances[sender][token] = @ - amount]
        t == ERC20Transfer(s1, token, Orderbook, sender, amount)
    IN
    IF t.status # "ok" THEN t
    ELSE Continue([t.st EXCEPT !.logs = Append(@, [event |-> "Withdrawal", user |-> sender,
                                                   token |-> token, amount |-> amount])])

-----------------------------------------------------------------------------
(* Fill executor *)

\* mutant: the order is taken as expired at its expiration time already
IsExpired_AtExpiration(order) == now >= order.expiration

IsExpired(order) == now > order.expiration

TakerNotAuthorized_Never(order, sender) == FALSE
TakerNotAuthorized(order, sender) ==
    order.taker # ZeroAddress /\ order.taker # sender

\* mutant: the cancellation registry is not consulted
IsCancelled_Never(st, digest) == FALSE

IsCancelled(st, digest) == st.cancelledOrders[digest]

SignedByMaker(order, recoveredSigner) == recoveredSigner = order.maker

\* mutant: the amount already filled is left out of the comparison
ExceedsRemaining_IgnoresFilled(st, order, digest, amountToFill) ==
    order.amountSell < amountToFill

ExceedsRemaining(st, order, digest, amountToFill) ==
    LET remainingSell == order.amountSell - st.filledAmountSell[digest]
    IN remainingSell < amountToFill

\* mutant: the quotient is rounded up
ProportionalBuyAmount_RoundedUp(order, amountToFill) ==
    (order.amountBuy * amountToFill + order.amountSell - 1) \div order.amountSell

\* evaluated only where the product fits a uint256 and amountSell is not zero
ProportionalBuyAmount_Nearest(order, amountToFill) ==
    (order.amountBuy * amountToFill + order.amountSell \div 2) \div order.amountSell
ProportionalBuyAmount(order, amountToFill) ==
    (order.amountBuy * amountToFill) \div order.amountSell

MakerLacksBalance(st, order, amountToFill) ==
    st.balances[order.maker][order.tokenSell] < amountToFill

\* mutant: the taker's balance is not checked
TakerLacksBalance_Never(st, sender, order, proportionalBuyAmount) == FALSE

TakerLacksBalance(st, sender, order, proportionalBuyAmount) ==
    st.balances[sender][order.tokenBuy] < proportionalBuyAmount

\* the checks of _fillOrder, in the order of the code
_fillOrderChecks(st, sender, order, amountToFill, signature) ==
    IF IsExpired(order) THEN Revert(st, "OrderExpired")
    ELSE IF TakerNotAuthorized(order, sender) THEN Revert(st, "NotAuthorizedTaker")
    ELSE
    LET digest == _orderHash(order) IN
    IF IsCancelled(st, digest) THEN Revert(st, "OrderAlreadyCancelled")
    ELSE
    LET recovered == recover(digest, signature) IN
    IF recovered.reverted THEN Revert(st, "ECDSAInvalidSignature")
    ELSE IF ~SignedByMaker(order, recovered.signer) THEN Revert(st, "InvalidSignature")
    ELSE IF order.amountSell < st.filledAmountSell[digest] THEN Revert(st, PanicArithmetic)
    ELSE IF ExceedsRemaining(st, order, digest, amountToFill)
    THEN Revert(st, "InsufficientOrderRemaining")
    ELSE IF order.amountBuy * amountToFill > MaxUint THEN Revert(st, PanicArithmetic)
    ELSE IF order.amountSell = 0 THEN Revert(st, PanicDivisionByZero)
    ELSE IF MakerLacksBalance(st, order, amountToFill)
    THEN Revert(st, "MakerInsufficientBalance")
    ELSE IF TakerLacksBalance(st, sender, order, ProportionalBuyAmount(order, amountToFill))
    THEN Revert(st, "TakerInsufficientBalance")
    ELSE Continue(st)

\* mutant: the four entries are computed from the balances read before the
\* first write, so a write to an entry named twice overwrites the earlier one
AdjustBalances_StaleReads(st, sender, order, amountToFill, proportionalBuyAmount) ==
    LET b == st.balances
        b1 == [b EXCEPT ![order.maker][order.tokenSell] = b[order.maker][order.tokenSell] - amountToFill]
        b2 == [b1 EXCEPT ![order.maker][order.tokenBuy] = b[order.maker][order.tokenBuy] + proportionalBuyAmount]
        b3 == [b2 EXCEPT ![sender][order.tokenBuy] = b[sender][order.tokenBuy] - proportionalBuyAmount]
        b4 == [b3 EXCEPT ![sender][order.tokenSell] = b[sender][order.tokenSell] + amountToFill]
    IN Continue([st EXCEPT !.balances = b4])

\* the four storage updates, one after the other, each with checked arithmetic
AdjustBalances(st, sender, order, amountToFill, proportionalBuyAmount) ==
    IF st.balances[order.maker][order.tokenSell] < amountToFill THEN Revert(st, PanicArithmetic)
    ELSE
    LET s1 == [st EXCEPT !.balances[order.maker][order.tokenSell] = @ - amountToFill] IN
    IF s1.balances[order.maker][order.tokenBuy] + proportionalBuyAmount > MaxUint
    THEN Revert(s1, PanicArithmetic)
    ELSE
    LET s2 == [s1 EXCEPT !.balances[order.maker][order.tokenBuy] = @ + proportionalBuyAmount] IN
    IF s2.balances[sender][order.tokenBuy] < proportionalBuyAmount THEN Revert(s2, PanicArithmetic)
    ELSE
    LET s3 == [s2 EXCEPT !.balances[sender][order.tokenBuy] = @ - proportionalBuyAmount] IN
    IF s3.balances[sender][order.tokenSell] + amountToFill > MaxUint THEN Revert(s3, PanicArithmetic)
    ELSE Continue([s3 EXCEPT !.balances[sender][order.tokenSell] = @ + amountToFill])

\* mutant: the fill is counted under the commitment of the order with salt 0
_fillOrderEffects_CountsSaltZero(st, sender, order, amountToFill) ==
    LET digest == _orderHash([order EXCEPT !.salt = 0])
        adjusted == AdjustBalances(st, sender, order, amountToFill,
                                   ProportionalBuyAmount(order, amountToFill))
    IN
    IF adjusted.status # "ok" THEN adjusted
    ELSE IF adjusted.st.filledAmountSell[digest] + amountToFill > MaxUint
    THEN Revert(adjusted.st, PanicArithmetic)
    ELSE
    LET s5 == [adjusted.st EXCEPT !.filledAmountSell[digest] = @ + amountToFill]
        s6 == [s5 EXCEPT !.logs = Append(@, [event |-> "OrderFilled",
                                             orderHash |-> _orderHash(order),
                                             filler |-> sender, amountFilled |-> amountToFill])]
    IN Continue(s6)
\* the writes of _fillOrder: balances, fill counter, event
_fillOrderEffects(st, sender, order, amountToFill) ==
    LET digest == _orderHash(order)
        adjusted == AdjustBalances(st, sender, order, amountToFill,
                                   ProportionalBuyAmount(order, amountToFill))
    IN
    IF adjusted.status # "ok" THEN adjusted
    ELSE IF adjusted.st.filledAmountSell[digest] + amountToFill > MaxUint
    THEN Revert(adjusted.st, PanicArithmetic)
    ELSE
    LET s5 == [adjusted.st EXCEPT !.filledAmountSell[digest] = @ + amountToFill]
        s6 == [s5 EXCEPT !.logs = Append(@, [event |-> "OrderFilled", orderHash |-> digest,
                                             filler |-> sender, amountFilled |-> amountToFill])]
    IN Continue(s6)

\* mutant: the fill counter is written before the checks are made
_fillOrder_CountsFirst(st, sender, order, amountToFill, signature) ==
    LET counted == [st EXCEPT !.filledAmountSell[_orderHash(order)] = @ + amountToFill]
        checked == _fillOrderChecks(st, sender, order, amountToFill, signature)
    IN
    IF checked.status # "ok" THEN Revert(counted, checked.status)
    ELSE _fillOrderEffects(st, sender, order, amountToFill)

_fillOrder(st, sender, order, amountToFill, signature) ==
    LET checked == _fillOrderChecks(st, sender, order, amountToFill, signature) IN
    IF checked.status # "ok" THEN checked
    ELSE _fillOrderEffects(checked.st, sender, order, amountToFill)

fillOrder(st, sender, order, amountToFill, signature) ==
    _fillOrder(st, sender, order, amountToFill, signature)

-----------------------------------------------------------------------------
(* Batch executor *)

\* mutant: an element that fails is skipped and the loop goes on
RECURSIVE fillOrdersBatchLoop_SkipFailed(_, _, _, _, _, _)
fillOrdersBatchLoop_SkipFailed(st, sender, orders, amountsToFill, signatures, i) ==
    IF i > Len(orders) THEN Continue(st)
    ELSE
    LET r == _fillOrder(st, sender, orders[i], amountsToFill[i], signatures[i]) IN
    fillOrdersBatchLoop_SkipFailed(IF r.status = "ok" THEN r.st ELSE st,
                                   sender, orders, amountsToFill, signatures, i + 1)

\* mutant: every element is checked against the state at the entry of the
\* call, while the writes of the elements accumulate
RECURSIVE BatchLoopChecksAtEntry(_, _, _, _, _, _, _)
BatchLoopChecksAtEntry(entry, st, sender, orders, amountsToFill, signatures, i) ==
    IF i > Len(orders) THEN Continue(st)
    ELSE
    LET checked == _fillOrderChecks(entry, sender, orders[i], amountsToFill[i], signatures[i])
    IN
    IF checked.status # "ok" THEN Revert(st, checked.status)
    ELSE
    LET r == _fillOrderEffects(st, sender, orders[i], amountsToFill[i]) IN
    IF r.status # "ok" THEN r
    ELSE BatchLoopChecksAtEntry(entry, r.st, sender, orders, amountsToFill, signatures, i + 1)

fillOrdersBatchLoop_ChecksAtEntry(st, sender, orders, amountsToFill, signatures, i) ==
    BatchLoopChecksAtEntry(st, st, sender, orders, amountsToFill, signatures, i)

RECURSIVE fillOrdersBatchLoop(_, _, _, _, _, _)
fillOrdersBatchLoop(st, sender, orders, amountsToFill, signatures, i) ==
    IF i > Len(orders) THEN Continue(st)
    ELSE
    LET r == _fillOrder(st, sender, orders[i], amountsToFill[i], signatures[i]) IN
    IF r.status # "ok" THEN r
    ELSE fillOrdersBatchLoop(r.st, sender, orders, amountsToFill, signatures, i + 1)

\* mutant: the size limit excludes MAX_BATCH_SIZE itself
fillOrdersBatch_LimitExclusive(st, sender, orders, amountsToFill, signatures) ==
    IF Len(orders) # Len(amountsToFill) \/ Len(orders) # Len(signatures)
    THEN Revert(st, "ArrayLengthMismatch")
    ELSE IF Len(orders) >= MAX_BATCH_SIZE THEN Revert(st, "TooManyOrders")
    ELSE fillOrdersBatchLoop(st, sender, orders, amountsToFill, signatures, 1)

fillOrdersBatch(st, sender, orders, amountsToFill, signatures) ==
    IF Len(orders) # Len(amountsToFill) \/ Len(orders) # Len(signatures)
    THEN Revert(st, "ArrayLengthMismatch")
    ELSE IF Len(orders) > MAX_BATCH_SIZE THEN Revert(st, "TooManyOrders")
    ELSE fillOrdersBatchLoop(st, sender, orders, amountsToFill, signatures, 1)

-----------------------------------------------------------------------------
(* Cancellation registry *)

cancelOrder_AnyCaller(st, sender, order) ==
    LET orderHash == _orderHash(order)
        s1 == [st EXCEPT !.cancelledOrders[orderHash] = TRUE]
        s2 == [s1 EXCEPT !.logs = Append(@, [event |-> "OrderCancelled",
                                             orderHash |-> orderHash, maker |-> sender])]
    IN Continue(s2)
cancelOrder_RejectsRepeat(st, sender, order) ==
    IF sender # order.maker THEN Revert(st, "OnlyMakerCanCancel")
    ELSE IF st.cancelledOrders[_orderHash(order)] THEN Revert(st, "OrderAlreadyCancelled")
    ELSE
    LET orderHash == _orderHash(order)
        s1 == [st EXCEPT !.cancelledOrders[orderHash] = TRUE]
        s2 == [s1 EXCEPT !.logs = Append(@, [event |-> "OrderCancelled",
                                             orderHash |-> orderHash, maker |-> sender])]
    IN Continue(s2)
\* mutant: the cancellation deletes the fill counter of the order
cancelOrder_DeletesCounter(st, sender, order) ==
    IF sender # order.maker THEN Revert(st, "OnlyMakerCanCancel")
    ELSE
    LET orderHash == _orderHash(order)
        s1 == [st EXCEPT !.cancelledOrders[orderHash] = TRUE,
                         !.filledAmountSell[orderHash] = 0]
        s2 == [s1 EXCEPT !.logs = Append(@, [event |-> "OrderCancelled",
                                             orderHash |-> orderHash, maker |-> sender])]
    IN Continue(s2)
cancelOrder(st, sender, order) ==
    IF sender # order.maker THEN Revert(st, "OnlyMakerCanCancel")
    ELSE
    LET orderHash == _orderHash(order)
        s1 == [st EXCEPT !.cancelledOrders[orderHash] = TRUE]
        s2 == [s1 EXCEPT !.logs = Append(@, [event |-> "OrderCancelled",
                                             orderHash |-> orderHash, maker |-> sender])]
    IN Continue(s2)

RECURSIVE cancelOrdersBatchLoop_Toggles(_, _, _, _)
cancelOrdersBatchLoop_Toggles(st, sender, orders, i) ==
    IF i > Len(orders) THEN Continue(st)
    ELSE IF sender # orders[i].maker THEN Revert(st, "OnlyMakerCanCancel")
    ELSE
    LET orderHash == _orderHash(orders[i])
        s1 == [st EXCEPT !.cancelledOrders[orderHash] = ~@]
        s2 == [s1 EXCEPT !.logs = Append(@, [event |-> "OrderCancelled",
                                             orderHash |-> orderHash, maker |-> sender])]
    IN cancelOrdersBatchLoop_Toggles(s2, sender, orders, i + 1)
RECURSIVE cancelOrdersBatchLoop_SkipsForeign(_, _, _, _)
cancelOrdersBatchLoop_SkipsForeign(st, sender, orders, i) ==
    IF i > Len(orders) THEN Continue(st)
    ELSE IF sender # orders[i].maker
    THEN cancelOrdersBatchLoop_SkipsForeign(st, sender, orders, i + 1)
    ELSE
    LET orderHash == _orderHash(orders[i])
        s1 == [st EXCEPT !.cancelledOrders[orderHash] = TRUE]
        s2 == [s1 EXCEPT !.logs = Append(@, [event |-> "OrderCancelled",
                                             orderHash |-> orderHash, maker |-> sender])]
    IN cancelOrdersBatchLoop_SkipsForeign(s2, sender, orders, i + 1)
RECURSIVE cancelOrdersBatchLoop(_, _, _, _)
cancelOrdersBatchLoop(st, sender, orders, i) ==
    IF i > Len(orders) THEN Continue(st)
    ELSE IF sender # orders[i].maker THEN Revert(st, "OnlyMakerCanCancel")
    ELSE
    LET orderHash == _orderHash(orders[i])
        s1 == [st EXCEPT !.cancelledOrders[orderHash] = TRUE]
        s2 == [s1 EXCEPT !.logs = Append(@, [event |-> "OrderCancelled",
                                             orderHash |-> orderHash, maker |-> sender])]
    IN cancelOrdersBatchLoop(s2, sender, orders, i + 1)

cancelOrdersBatch(st, sender, orders) ==
    IF Len(orders) > MAX_BATCH_SIZE THEN Revert(st, "TooManyOrders")
    ELSE cancelOrdersBatchLoop(st, sender, orders, 1)

-----------------------------------------------------------------------------
(* Inputs of the calls *)

Amounts == 0..MaxAmount

\* what is signed off-chain: bob signs every order, alice every order but the
\* tampered one
Signers == {"alice", "bob"}
HasSigned(signer, order) ==
    signer = "bob" \/ (signer = "alice" /\ order # TamperedOrder)

\* signatures a caller can present with an order: those made over the
\* presented order, the one its maker made over the base order, a malformed one
SignaturesFor(order) ==
    {Sign(s, _orderHash(order)) : s \in {x \in Signers : HasSigned(x, order)}}
        \cup {Sign(order.maker, _orderHash(BaseOrder)), MalformedSignature}

\* elements of the batches: correctly signed fills of three orders, and a forged one
BatchOrders ==
    {BaseOrder, [BaseOrder EXCEPT !.salt = 1], [BaseOrder EXCEPT !.expiration = 0]}
BatchRequests ==
    {[order |-> o, amountToFill |-> a, signature |-> Sign(o.maker, _orderHash(o))] :
        o \in BatchOrders, a \in 1..2}
    \cup {[order |-> BaseOrder, amountToFill |-> 1,
           signature |-> Sign("bob", _orderHash(BaseOrder))]}

SeqsUpTo(S, n) == UNION {[1..k -> S] : k \in 0..n}

OrdersOf(reqs) == [i \in DOMAIN reqs |-> reqs[i].order]
AmountsOf(reqs) == [i \in DOMAIN reqs |-> reqs[i].amountToFill]
SignaturesOf(reqs) == [i \in DOMAIN reqs |-> reqs[i].signature]

OversizedRequests ==
    [i \in 1..(MAX_BATCH_SIZE + 1) |->
        [order |-> BaseOrder, amountToFill |-> 1,
         signature |-> Sign("alice", _orderHash(BaseOrder))]]

\* a batch of MAX_BATCH_SIZE fills that bob can take with the deposits of the
\* fixture: alice's base order twice, its salt sibling, his own order twice
FullRequests ==
    LET fill(o) == [order |-> o, amountToFill |-> 1,
                    signature |-> Sign(o.maker, _orderHash(o))]
    IN <<fill(BaseOrder), fill(BaseOrder), fill([BaseOrder EXCEPT !.salt = 1]),
         fill([BaseOrder EXCEPT !.maker = "bob"]), fill([BaseOrder EXCEPT !.maker = "bob"])>>

\* more than MAX_BATCH_SIZE fills that bob can take one after the other with
\* the deposits of the fixture: the order that buys the token it sells moves
\* nothing between alice and bob
OversizedValidRequests ==
    LET fill(o) == [order |-> o, amountToFill |-> 1,
                    signature |-> Sign(o.maker, _orderHash(o))]
    IN <<fill(BaseOrder), fill([BaseOrder EXCEPT !.tokenBuy = "tokenA"]),
         fill([BaseOrder EXCEPT !.tokenBuy = "tokenA"]), fill(BaseOrder),
         fill([BaseOrder EXCEPT !.maker = "bob"]), fill([BaseOrder EXCEPT !.maker = "bob"])>>

\* the three arrays of a fillOrdersBatch call
FillBatches ==
    {[orders |-> OrdersOf(b), amountsToFill |-> AmountsOf(b), signatures |-> SignaturesOf(b)] :
        b \in SeqsUpTo(BatchRequests, MaxBatchLen)
                \cup {OversizedRequests, FullRequests, OversizedValidRequests}}
    \cup {[orders |-> <<BaseOrder>>, amountsToFill |-> <<>>,
           signatures |-> <<Sign("alice", _orderHash(BaseOrder))>>],
          [orders |-> <<BaseOrder>>, amountsToFill |-> <<1>>, signatures |-> <<>>],
          [orders |-> OrdersOf(OversizedRequests),
           amountsToFill |-> AmountsOf(FullRequests),
           signatures |-> SignaturesOf(OversizedRequests)]}

CancelBatches ==
    SeqsUpTo({BaseOrder, [BaseOrder EXCEPT !.salt = 1], [BaseOrder EXCEPT !.maker = "bob"]},
             MaxBatchLen)
    \cup {[i \in 1..(MAX_BATCH_SIZE + 1) |-> BaseOrder]}

-----------------------------------------------------------------------------
(* The state machine *)

\* TestToken supply handed to the accounts by the test set-up, which also has
\* every account approve the Orderbook
InitialTokens ==
    [h \in Holders |-> [t \in Tokens |->
        IF h = "alice" /\ t = "tokenA" THEN BaseOrder.amountSell + 1
        ELSE IF h = "bob" /\ t = "tokenB" THEN BaseOrder.amountBuy + 1
        ELSE 0]]

NoCall == [fn |-> "none", sender |-> ZeroAddress, status |-> "ok", logs |-> <<>>]

\* the contract as deployed
Deployed ==
    /\ balances = [a \in Accounts |-> [t \in Assets |-> 0]]
    /\ erc20 = InitialTokens

\* the fixture of the test-suite: alice and bob have deposited their tokens
Funded ==
    /\ balances = [a \in Accounts |-> [t \in Assets |->
                        IF t \in Tokens THEN InitialTokens[a][t] ELSE 0]]
    /\ erc20 = [h \in Holders |-> [t \in Tokens |->
                        IF h = Orderbook THEN InitialTokens["alice"][t] + InitialTokens["bob"][t]
                        ELSE 0]]

(* The relay's WebSocket server as index.ts constructs it.  The limits are  *)
(* the options of the constructor, which index.ts reads from the            *)
(* environment; the scenarios run a server configured with small limits.    *)

MAX_CONNECTIONS == 1
MAX_CONNECTIONS_PER_IP == 1
MAX_MESSAGES_PER_IP == 2
SUBSCRIPTION_LIMIT == 1

\* the sockets that clients can open at the same time
Sockets == 1..(MAX_CONNECTIONS + 1)

\* a socket nobody has opened, or one whose 'close' event has been emitted
NoSocket ==
    [readyState |-> "CLOSED", accepted |-> FALSE, ip |-> "none", isAlive |-> "undefined",
     subscribedMakers |-> <<>>, subscribedTokens |-> [buy |-> <<>>, sell |-> <<>>]]

\* new RateLimiter(maxTokens, refillRate): refillRate in tenths of a token per
\* second, refillInterval in ms; no key seen yet
RateLimiter(maxTokens, refillRateTenths) ==
    [maxTokens |-> maxTokens, refillRate |-> refillRateTenths, refillInterval |-> 1000,
     buckets |-> <<>>]

\* the fields the constructor sets, and no client connected
OrderbookWebSocketServer ==
    [connectionLimiter |-> RateLimiter(MAX_CONNECTIONS_PER_IP, 1),
     messageLimiter |-> RateLimiter(MAX_MESSAGES_PER_IP, 10),
     maxConnections |-> MAX_CONNECTIONS,
     subscriptionLimit |-> SUBSCRIPTION_LIMIT,
     activeConnections |-> 0,
     clients |-> [s \in Sockets |-> NoSocket]]

\* OrderbookContract after startListening: no run of processRetryQueue awaits
NoRetryRuns == [objects |-> <<>>, current |-> 0, awaiting |-> <<>>, retried |-> 0]

\* what OrderModel.findOne yields when no row matches
NoRecord == [orderHash |-> "null"]

\* the relay at start-up: an empty table, nothing observed yet
RelayStarted ==
    /\ ordersTable = [d \in Digests |-> NoRecord]
    /\ eventQueue = <<>>
    /\ retryQueue = <<>>
    /\ retryRuns = NoRetryRuns
    /\ server = OrderbookWebSocketServer

Init ==
    /\ Deployed \/ Funded
    /\ RelayStarted
    /\ filledAmountSell = [d \in Digests |-> 0]
    /\ cancelledOrders = [d \in Digests |-> FALSE]
    /\ now = 0
    /\ calls = 0
    /\ last = NoCall

\* the end of a transaction: a successful call commits its storage writes and
\* its logs, a reverted call leaves the storage as it was and logs nothing
Mined(fn, sender, r) ==
    /\ IF r.status = "ok"
       THEN /\ balances' = r.st.balances
            /\ filledAmountSell' = r.st.filledAmountSell
            /\ cancelledOrders' = r.st.cancelledOrders
            /\ erc20' = r.st.erc20
            /\ last' = [fn |-> fn, sender |-> sender, status |-> "ok", logs |-> r.st.logs]
       ELSE /\ UNCHANGED <<balances, filledAmountSell, cancelledOrders, erc20>>
            /\ last' = [fn |-> fn, sender |-> sender, status |-> r.status, logs |-> <<>>]
    /\ UNCHANGED now

\* a transaction while the relay does nothing
Commit(fn, sender, r) ==
    /\ Mined(fn, sender, r)
    /\ UNCHANGED relayVars

\* one of the transactions of a scenario
Transact(fn, sender, r) ==
    /\ calls < MaxCalls
    /\ calls' = calls + 1
    /\ Commit(fn, sender, r)

Deposit ==
    \E sender \in Accounts, token \in Assets, amount \in Amounts :
        Transact("deposit", sender, deposit(Storage, sender, token, amount))

Withdraw ==
    \E sender \in Accounts, token \in Assets, amount \in Amounts :
        Transact("withdraw", sender, withdraw(Storage, sender, token, amount))

FillOrder ==
    \E sender \in Accounts, order \in Orders, amountToFill \in Amounts :
        \E signature \in SignaturesFor(order) :
            Transact("fillOrder", sender,
                     fillOrder(Storage, sender, order, amountToFill, signature))

FillOrdersBatch ==
    \E sender \in Accounts, b \in FillBatches :
        Transact("fillOrdersBatch", sender,
                 fillOrdersBatch(Storage, sender, b.orders, b.amountsToFill, b.signatures))

CancelOrder ==
    \E sender \in Accounts, order \in Orders :
        Transact("cancelOrder", sender, cancelOrder(Storage, sender, order))

CancelOrdersBatch ==
    \E sender \in Accounts, orders \in CancelBatches :
        Transact("cancelOrdersBatch", sender, cancelOrdersBatch(Storage, sender, orders))

\* a later block
Tick ==
    /\ now < MaxTime
    /\ now' = now + 1
    /\ last' = NoCall
    /\ UNCHANGED <<balances, filledAmountSell, cancelledOrders, erc20, calls>>
    /\ UNCHANGED relayVars

Next ==
    \/ Deposit
    \/ Withdraw
    \/ FillOrder
    \/ FillOrdersBatch
    \/ CancelOrder
    \/ CancelOrdersBatch
    \/ Tick

Spec == Init /\ [][Next]_vars

TypeOK ==
    /\ balances \in [Accounts -> [Assets -> 0..MaxUint]]
    /\ filledAmountSell \in [Digests -> 0..MaxUint]
    /\ cancelledOrders \in [Digests -> BOOLEAN]
    /\ erc20 \in [Holders -> [Tokens -> 0..MaxUint]]
    /\ now \in 0..MaxTime
    /\ calls \in 0..MaxCalls

-----------------------------------------------------------------------------
(* Vocabulary of the properties *)

RECURSIVE SumBalances(_, _, _)
SumBalances(b, accounts, asset) ==
    IF accounts = {} THEN 0
    ELSE LET a == CHOOSE x \in accounts : TRUE
         IN b[a][asset] + SumBalances(b, accounts \ {a}, asset)

\* the total of an asset held on the ledger
LedgerTotal(b, asset) == SumBalances(b, Accounts, asset)

OrderOf(digest) == CHOOSE o \in Orders : _orderHash(o) = digest

Events(receipt, name) ==
    {receipt.logs[i] : i \in {j \in DOMAIN receipt.logs : receipt.logs[j].event = name}}

Remaining(st, order) == order.amountSell - st.filledAmountSell[_orderHash(order)]

\* floor(amountBuy * amountToFill / amountSell), for amountSell > 0
CounterAmount(order, amountToFill) ==
    CHOOSE q \in 0..(order.amountBuy * amountToFill) :
        /\ q * order.amountSell <= order.amountBuy * amountToFill
        /\ (q + 1) * order.amountSell > order.amountBuy * amountToFill

\* the first k elements of the arrays of a batch call
Prefix(b, k) ==
    [orders |-> SubSeq(b.orders, 1, k), amountsToFill |-> SubSeq(b.amountsToFill, 1, k),
     signatures |-> SubSeq(b.signatures, 1, k)]

WellFormedBatch(b) ==
    /\ Len(b.orders) = Len(b.amountsToFill)
    /\ Len(b.orders) = Len(b.signatures)
    /\ Len(b.orders) <= MAX_BATCH_SIZE

\* the outcome of the elements of a batch before element i
BeforeElement(sender, b, i) ==
    fillOrdersBatch(Storage, sender, Prefix(b, i - 1).orders,
                    Prefix(b, i - 1).amountsToFill, Prefix(b, i - 1).signatures)

\* checks 1-4 of the fill executor pass: unexpired, allowed taker, not
\* cancelled, signed by the maker over the presented fields
AcceptedUpToSignature(st, sender, order, signature) ==
    /\ now <= order.expiration
    /\ order.taker \in {ZeroAddress, sender}
    /\ ~st.cancelledOrders[_orderHash(order)]
    /\ signature = Sign(order.maker, _orderHash(order))

ErrorsUpToSignature ==
    {"OrderExpired", "NotAuthorizedTaker", "OrderAlreadyCancelled",
     "ECDSAInvalidSignature", "InvalidSignature"}

-----------------------------------------------------------------------------
(* C1: no fill, single or batch, changes the total of any asset on the       *)
(* ledger; the total changes only by a successful deposit (+amount) or a     *)
(* successful withdraw (-amount), also for self-fills and orders whose       *)
(* tokenSell equals tokenBuy.                                                *)
C1_Conservation ==
    [][\A t \in Assets :
        LET before == LedgerTotal(balances, t)
            after == LedgerTotal(balances', t)
        IN /\ last'.fn \in {"fillOrder", "fillOrdersBatch"} => after = before
           /\ last'.status # "ok" => after = before
           /\ last'.fn \notin {"deposit", "withdraw"} => after = before
           /\ last'.fn = "deposit" /\ last'.status = "ok" =>
                after = before + (IF last'.logs[1].token = t THEN last'.logs[1].amount ELSE 0)
           /\ last'.fn = "withdraw" /\ last'.status = "ok" =>
                after = before - (IF last'.logs[1].token = t THEN last'.logs[1].amount ELSE 0)
    ]_vars

\* a fill by the maker herself of an order selling a token for the same token
C1_Witness ==
    /\ last.fn = "fillOrder"
    /\ last.status = "ok"
    /\ \E e \in Events(last, "OrderFilled") :
        /\ e.amountFilled > 0
        /\ OrderOf(e.orderHash).maker = e.filler
        /\ OrderOf(e.orderHash).tokenSell = OrderOf(e.orderHash).tokenBuy

-----------------------------------------------------------------------------
(* C2 as stated: no fill counter exceeds its order's amountSell, and every   *)
(* fillOrder asking for more than the remaining amount is rejected with      *)
(* InsufficientOrderRemaining.                                               *)
FilledWithinAmountSell ==
    \A o \in Orders : filledAmountSell[_orderHash(o)] <= o.amountSell

C2_AsStated ==
    /\ FilledWithinAmountSell
    /\ \A sender \in Accounts, order \in Orders, amountToFill \in Amounts :
        \A signature \in SignaturesFor(order) :
            amountToFill > Remaining(Storage, order) =>
                fillOrder(Storage, sender, order, amountToFill, signature).status
                    = "InsufficientOrderRemaining"

(* C2 amended: no fill counter exceeds its order's amountSell; a fillOrder,  *)
(* alone or as a batch element, asking for more than the remaining amount is *)
(* rejected: with InsufficientOrderRemaining when the order is unexpired,    *)
(* the caller an allowed taker, the order not cancelled and the signature    *)
(* the maker's, and with the error of the first of these checks that fails   *)
(* otherwise.                                                                *)
C2_FillBound ==
    /\ FilledWithinAmountSell
    /\ \A sender \in Accounts, order \in Orders, amountToFill \in Amounts :
        \A signature \in SignaturesFor(order) :
            amountToFill > Remaining(Storage, order) =>
                LET r == fillOrder(Storage, sender, order, amountToFill, signature) IN
                IF AcceptedUpToSignature(Storage, sender, order, signature)
                THEN r.status = "InsufficientOrderRemaining"
                ELSE r.status \in ErrorsUpToSignature
    /\ \A sender \in Accounts, b \in FillBatches :
        WellFormedBatch(b) =>
            \A i \in DOMAIN b.orders :
                LET pre == BeforeElement(sender, b, i) IN
                (/\ pre.status = "ok"
                 /\ b.amountsToFill[i] > Remaining(pre.st, b.orders[i])) =>
                    LET r == fillOrdersBatch(Storage, sender, b.orders,
                                             b.amountsToFill, b.signatures) IN
                    IF AcceptedUpToSignature(pre.st, sender, b.orders[i], b.signatures[i])
                    THEN r.status = "InsufficientOrderRemaining"
                    ELSE r.status \in ErrorsUpToSignature

\* a partly filled order, and a fill of no more than its amountSell that is
\* rejected because too little remains
C2_Witness ==
    /\ last.fn = "fillOrder"
    /\ last.status = "InsufficientOrderRemaining"
    /\ \E order \in Orders, amountToFill \in Amounts :
        /\ filledAmountSell[_orderHash(order)] > 0
        /\ amountToFill <= order.amountSell
        /\ amountToFill > Remaining(Storage, order)
        /\ fillOrder(Storage, last.sender, order, amountToFill,
                     Sign(order.maker, _orderHash(order))).status = last.status

-----------------------------------------------------------------------------
(* C3 as stated: a fillOrder succeeds only with the maker's signature over   *)
(* the commitment of the presented fields, and with any other signature it   *)
(* is rejected with InvalidSignature.                                        *)
C3_AsStated ==
    \A sender \in Accounts, order \in Orders, amountToFill \in Amounts :
        \A signature \in SignaturesFor(order) :
            LET r == fillOrder(Storage, sender, order, amountToFill, signature) IN
            IF signature = Sign(order.maker, _orderHash(order))
            THEN TRUE
            ELSE r.status = "InvalidSignature"

\* no fill of an order its maker never signed has been recorded or logged
NeverSignedNeverFilled ==
    /\ filledAmountSell[_orderHash(TamperedOrder)] = 0
    /\ \A e \in Events(last, "OrderFilled") : e.orderHash # _orderHash(TamperedOrder)

(* C3 amended: a fillOrder, alone or as a batch element, succeeds only with  *)
(* the maker's signature over the commitment of the presented fields.  With  *)
(* any other signature it is rejected: by an earlier check if the order is   *)
(* expired, the caller not the allowed taker or the order cancelled;         *)
(* otherwise with InvalidSignature if the signature is well formed and with  *)
(* the signature library's own error if it is malformed.  No order is filled *)
(* that its maker did not sign.                                              *)
C3_SignatureRequired ==
    /\ NeverSignedNeverFilled
    /\ \A sender \in Accounts, order \in Orders, amountToFill \in Amounts :
        \A signature \in SignaturesFor(order) :
            LET r == fillOrder(Storage, sender, order, amountToFill, signature) IN
            IF signature = Sign(order.maker, _orderHash(order))
            THEN TRUE
            ELSE IF now > order.expiration THEN r.status = "OrderExpired"
            ELSE IF order.taker \notin {ZeroAddress, sender} THEN r.status = "NotAuthorizedTaker"
            ELSE IF cancelledOrders[_orderHash(order)] THEN r.status = "OrderAlreadyCancelled"
            ELSE IF signature.wellFormed THEN r.status = "InvalidSignature"
            ELSE r.status = "ECDSAInvalidSignature"
    /\ \A sender \in Accounts, b \in FillBatches :
        fillOrdersBatch(Storage, sender, b.orders, b.amountsToFill, b.signatures).status = "ok"
            => \A i \in DOMAIN b.orders :
                    b.signatures[i] = Sign(b.orders[i].maker, _orderHash(b.orders[i]))

\* the tampered order, presented with the signature alice made over the base
\* order while both parties hold the funds to settle it, is rejected
C3_Witness ==
    /\ last.fn = "fillOrder"
    /\ last.status = "InvalidSignature"
    /\ balances["alice"]["tokenA"] >= TamperedOrder.amountSell
    /\ balances[last.sender]["tokenB"] >= TamperedOrder.amountBuy
    /\ fillOrder(Storage, last.sender, TamperedOrder, TamperedOrder.amountSell,
                 Sign("alice", _orderHash(BaseOrder))).status = "InvalidSignature"

-----------------------------------------------------------------------------
(* C4: once an order is cancelled, every later fillOrder or batch element    *)
(* for it is rejected, with OrderAlreadyCancelled when the order is          *)
(* unexpired and the caller an allowed taker; its fill counter never         *)
(* changes again and no fill of it is logged.                                *)
C4_CancelledStaysUnfilled ==
    [][\A d \in Digests :
        cancelledOrders[d] =>
            /\ cancelledOrders'[d]
            /\ filledAmountSell'[d] = filledAmountSell[d]
            /\ \A e \in Events(last', "OrderFilled") : e.orderHash # d
    ]_vars

C4_CancelledRejected ==
    /\ \A sender \in Accounts, order \in Orders, amountToFill \in Amounts :
        \A signature \in SignaturesFor(order) :
            cancelledOrders[_orderHash(order)] =>
                LET r == fillOrder(Storage, sender, order, amountToFill, signature) IN
                /\ r.status # "ok"
                /\ (now <= order.expiration /\ order.taker \in {ZeroAddress, sender})
                        => r.status = "OrderAlreadyCancelled"
    /\ \A sender \in Accounts, b \in FillBatches :
        (WellFormedBatch(b) /\ \E i \in DOMAIN b.orders : cancelledOrders[_orderHash(b.orders[i])])
            => fillOrdersBatch(Storage, sender, b.orders, b.amountsToFill,
                               b.signatures).status # "ok"

C4_CancelIsTerminal == C4_CancelledStaysUnfilled /\ []C4_CancelledRejected

\* a cancelled order that both parties could settle, and a fill of it rejected
C4_Witness ==
    /\ last.fn = "fillOrder"
    /\ last.status = "OrderAlreadyCancelled"
    /\ cancelledOrders[_orderHash(BaseOrder)]
    /\ balances["alice"]["tokenA"] >= BaseOrder.amountSell
    /\ balances[last.sender]["tokenB"] >= BaseOrder.amountBuy
    /\ fillOrder(Storage, last.sender, BaseOrder, BaseOrder.amountSell,
                 Sign("alice", _orderHash(BaseOrder))).status = "OrderAlreadyCancelled"

-----------------------------------------------------------------------------
(* C5: a rejected fillOrder leaves every balance, fill counter and           *)
(* cancellation flag as it was and logs no OrderFilled event; no write is    *)
(* made before the last check has passed.                                    *)
C5_RejectedCallUnchanged ==
    [][(last'.fn = "fillOrder" /\ last'.status # "ok") =>
            /\ UNCHANGED <<balances, filledAmountSell, cancelledOrders, erc20>>
            /\ Events(last', "OrderFilled") = {}
    ]_vars

C5_ChecksBeforeWrites ==
    \A sender \in Accounts, order \in Orders, amountToFill \in Amounts :
        \A signature \in SignaturesFor(order) :
            LET r == fillOrder(Storage, sender, order, amountToFill, signature) IN
            r.status # "ok" => r.st = Storage

C5_AllOrNothing == C5_RejectedCallUnchanged /\ []C5_ChecksBeforeWrites

\* a fill rejected by the last of the checks, the taker's balance
C5_Witness ==
    /\ last.fn = "fillOrder"
    /\ last.status = "TakerInsufficientBalance"
    /\ balances["alice"]["tokenA"] > 0

-----------------------------------------------------------------------------
(* C6: if any element of a fillOrdersBatch call is rejected, whatever its    *)
(* position and the reason, the call is rejected, and a rejected batch       *)
(* leaves the state as it was before the call: the writes of its earlier     *)
(* elements are not kept.                                                    *)
C6_RejectedBatchUnchanged ==
    [][(last'.fn = "fillOrdersBatch" /\ last'.status # "ok") =>
            /\ UNCHANGED <<balances, filledAmountSell, cancelledOrders, erc20>>
            /\ last'.logs = <<>>
    ]_vars

C6_ElementRejectsBatch ==
    \A sender \in Accounts, b \in FillBatches :
        WellFormedBatch(b) =>
            \A i \in DOMAIN b.orders :
                LET pre == BeforeElement(sender, b, i) IN
                (/\ pre.status = "ok"
                 /\ _fillOrder(pre.st, sender, b.orders[i], b.amountsToFill[i],
                               b.signatures[i]).status # "ok")
                    => fillOrdersBatch(Storage, sender, b.orders, b.amountsToFill,
                                       b.signatures).status # "ok"

C6_BatchAtomic == C6_RejectedBatchUnchanged /\ []C6_ElementRejectsBatch

\* a batch rejected for InsufficientOrderRemaining after an earlier element
\* had moved balances and raised a fill counter
C6_Witness ==
    /\ last.fn = "fillOrdersBatch"
    /\ last.status = "InsufficientOrderRemaining"
    /\ \E b \in FillBatches :
        LET r == fillOrdersBatch(Storage, last.sender, b.orders, b.amountsToFill, b.signatures)
        IN /\ r.status = last.status
           /\ r.st.balances # balances
           /\ r.st.filledAmountSell # filledAmountSell

-----------------------------------------------------------------------------
(* C7 as stated: a successful fillOrder lowers balances[maker][tokenSell] by *)
(* amountToFill, raises balances[maker][tokenBuy] by counterAmount, lowers   *)
(* balances[caller][tokenBuy] by counterAmount, raises                       *)
(* balances[caller][tokenSell] by amountToFill and raises the fill counter   *)
(* by amountToFill, with counterAmount the floor of                          *)
(* amountBuy * amountToFill / amountSell.                                    *)
C7_AsStated ==
    [][(last'.fn = "fillOrder" /\ last'.status = "ok") =>
        LET e == last'.logs[1]
            o == OrderOf(e.orderHash)
            caller == e.filler
            amountToFill == e.amountFilled
            counterAmount == CounterAmount(o, amountToFill)
        IN /\ balances'[o.maker][o.tokenSell] = balances[o.maker][o.tokenSell] - amountToFill
           /\ balances'[o.maker][o.tokenBuy] = balances[o.maker][o.tokenBuy] + counterAmount
           /\ balances'[caller][o.tokenBuy] = balances[caller][o.tokenBuy] - counterAmount
           /\ balances'[caller][o.tokenSell] = balances[caller][o.tokenSell] + amountToFill
           /\ filledAmountSell'[e.orderHash] = filledAmountSell[e.orderHash] + amountToFill
    ]_vars

\* the sum of the changes the four updates make to the entry of account and asset
NetChange(o, caller, amountToFill, counterAmount, account, asset) ==
      (IF account = o.maker /\ asset = o.tokenSell THEN 0 - amountToFill ELSE 0)
    + (IF account = o.maker /\ asset = o.tokenBuy THEN counterAmount ELSE 0)
    + (IF account = caller /\ asset = o.tokenBuy THEN 0 - counterAmount ELSE 0)
    + (IF account = caller /\ asset = o.tokenSell THEN amountToFill ELSE 0)

(* C7 amended: a successful fillOrder changes every ledger entry by the sum  *)
(* of the changes that name it among -amountToFill for (maker, tokenSell),   *)
(* +counterAmount for (maker, tokenBuy), -counterAmount for (caller,         *)
(* tokenBuy) and +amountToFill for (caller, tokenSell), with counterAmount   *)
(* the floor of amountBuy * amountToFill / amountSell: exactly as stated     *)
(* when maker # caller and tokenSell # tokenBuy, by the net of its two       *)
(* changes when an entry is named twice.  The fill counter rises by          *)
(* amountToFill.                                                             *)
C7_FillEffect ==
    [][(last'.fn = "fillOrder" /\ last'.status = "ok") =>
        LET e == last'.logs[1]
            o == OrderOf(e.orderHash)
            caller == e.filler
            amountToFill == e.amountFilled
            counterAmount == CounterAmount(o, amountToFill)
        IN /\ \A a \in Accounts, t \in Assets :
                balances'[a][t] = balances[a][t]
                    + NetChange(o, caller, amountToFill, counterAmount, a, t)
           /\ (o.maker # caller /\ o.tokenSell # o.tokenBuy) =>
                /\ balances'[o.maker][o.tokenSell] = balances[o.maker][o.tokenSell] - amountToFill
                /\ balances'[o.maker][o.tokenBuy] = balances[o.maker][o.tokenBuy] + counterAmount
                /\ balances'[caller][o.tokenBuy] = balances[caller][o.tokenBuy] - counterAmount
                /\ balances'[caller][o.tokenSell] = balances[caller][o.tokenSell] + amountToFill
           /\ filledAmountSell'[e.orderHash] = filledAmountSell[e.orderHash] + amountToFill
    ]_vars

\* a partial fill between two parties at a price that does not divide evenly
C7_Witness ==
    /\ last.fn = "fillOrder"
    /\ last.status = "ok"
    /\ LET e == last.logs[1]
           o == OrderOf(e.orderHash)
       IN /\ e.filler # o.maker
          /\ o.tokenSell # o.tokenBuy
          /\ 0 < e.amountFilled /\ e.amountFilled < o.amountSell
          /\ CounterAmount(o, e.amountFilled) * o.amountSell < o.amountBuy * e.amountFilled

-----------------------------------------------------------------------------
(* Checks 1-6 of the fill executor pass: the order is accepted up to its     *)
(* signature, the amount fits what remains and the counter amount can be     *)
(* computed.                                                                 *)
AcceptedUpToBalances(st, sender, order, amountToFill, signature) ==
    /\ AcceptedUpToSignature(st, sender, order, signature)
    /\ amountToFill <= Remaining(st, order)
    /\ order.amountBuy * amountToFill <= MaxUint
    /\ order.amountSell > 0

NonNegativeBalances ==
    \A a \in Accounts, t \in Assets : balances[a][t] >= 0

-----------------------------------------------------------------------------
(* C9: two orders that differ only in salt have different commitments; a     *)
(* fill counter or cancellation flag changes only in a call that fills or    *)
(* cancels the order of that very commitment, so filling or cancelling an    *)
(* order leaves the counter and flag of its salt sibling alone; and an       *)
(* accepted order is never refused for InsufficientOrderRemaining while the  *)
(* amount asked fits its own amountSell less its own counter.                *)
SaltSibling(order) == [order EXCEPT !.salt = 1 - @]

C9_DistinctCommitments ==
    \A o \in Orders : _orderHash(SaltSibling(o)) # _orderHash(o)

C9_OwnCounterDecides ==
    \A sender \in Accounts, order \in Orders, amountToFill \in Amounts :
        LET signature == Sign(order.maker, _orderHash(order))
            r == fillOrder(Storage, sender, order, amountToFill, signature)
        IN (/\ AcceptedUpToSignature(Storage, sender, order, signature)
            /\ amountToFill <= Remaining(Storage, order))
                => r.status # "InsufficientOrderRemaining"

C9_OnlyNamedOrderChanges ==
    [][\A d \in Digests :
        (filledAmountSell'[d] # filledAmountSell[d] \/ cancelledOrders'[d] # cancelledOrders[d])
            => \E i \in DOMAIN last'.logs :
                    /\ last'.logs[i].event \in {"OrderFilled", "OrderCancelled"}
                    /\ last'.logs[i].orderHash = d
    ]_vars

C9_SaltSeparatesOrders ==
    /\ []C9_DistinctCommitments
    /\ []C9_OwnCounterDecides
    /\ C9_OnlyNamedOrderChanges

\* the base order is filled completely and its salt sibling has just been
\* filled in part
C9_Witness ==
    /\ last.fn = "fillOrder"
    /\ last.status = "ok"
    /\ last.logs[1].orderHash = _orderHash(SaltSibling(BaseOrder))
    /\ last.logs[1].amountFilled > 0
    /\ filledAmountSell[_orderHash(BaseOrder)] = BaseOrder.amountSell
    /\ filledAmountSell[_orderHash(SaltSibling(BaseOrder))] < BaseOrder.amountSell

-----------------------------------------------------------------------------
(* C10: fillOrder is rejected with OrderExpired whenever the time is past    *)
(* order.expiration, whatever the signature, the balances, the caller and    *)
(* the cancellation flag; at the expiration time itself it is not rejected   *)
(* as expired.                                                               *)
C10_ExpiredRejected ==
    \A sender \in Accounts, order \in Orders, amountToFill \in Amounts :
        \A signature \in SignaturesFor(order) :
            LET r == fillOrder(Storage, sender, order, amountToFill, signature) IN
            /\ now > order.expiration => r.status = "OrderExpired"
            /\ now = order.expiration => r.status # "OrderExpired"

\* an expired order that the parties could settle is rejected, while the base
\* order, at its expiration time, can still be filled
C10_Witness ==
    /\ last.fn = "fillOrder"
    /\ last.status = "OrderExpired"
    /\ LET expired == [BaseOrder EXCEPT !.expiration = 0] IN
        /\ now > expired.expiration
        /\ balances["alice"]["tokenA"] >= expired.amountSell
        /\ balances[last.sender]["tokenB"] >= expired.amountBuy
        /\ fillOrder(Storage, last.sender, expired, expired.amountSell,
                     Sign("alice", _orderHash(expired))).status = "OrderExpired"
    /\ now = BaseOrder.expiration
    /\ fillOrder(Storage, last.sender, BaseOrder, BaseOrder.amountSell,
                 Sign("alice", _orderHash(BaseOrder))).status = "ok"

-----------------------------------------------------------------------------
(* C11: for an unexpired order with a taker other than the zero address, a   *)
(* fillOrder from any caller but that taker is rejected with                 *)
(* NotAuthorizedTaker, whatever the signature and the balances; an order     *)
(* whose taker is the zero address is never rejected for its caller, and     *)
(* any caller holding the counter amount fills it.                           *)
C11_TakerRestriction ==
    \A sender \in Accounts, order \in Orders, amountToFill \in Amounts :
        \A signature \in SignaturesFor(order) :
            LET r == fillOrder(Storage, sender, order, amountToFill, signature) IN
            /\ (now <= order.expiration /\ order.taker # ZeroAddress /\ sender # order.taker)
                    => r.status = "NotAuthorizedTaker"
            /\ order.taker = ZeroAddress => r.status # "NotAuthorizedTaker"
            /\ (/\ order.taker = ZeroAddress
                /\ AcceptedUpToBalances(Storage, sender, order, amountToFill, signature)
                /\ balances[order.maker][order.tokenSell] >= amountToFill
                /\ balances[sender][order.tokenBuy] >= CounterAmount(order, amountToFill))
                    => r.status = "ok"

\* alice, holding both tokens, is refused as filler of a correctly signed
\* order reserved to bob, which bob himself can fill
C11_Witness ==
    /\ last.fn = "fillOrder"
    /\ last.status = "NotAuthorizedTaker"
    /\ last.sender = "alice"
    /\ LET reserved == [BaseOrder EXCEPT !.taker = "bob"]
           signature == Sign("alice", _orderHash(reserved))
       IN /\ now <= reserved.expiration
          /\ balances["alice"]["tokenA"] >= 1
          /\ balances["alice"]["tokenB"] >= CounterAmount(reserved, 1)
          /\ CounterAmount(reserved, 1) > 0
          /\ fillOrder(Storage, "alice", reserved, 1, signature).status = "NotAuthorizedTaker"
          /\ balances["bob"]["tokenB"] >= CounterAmount(reserved, 1)
          /\ fillOrder(Storage, "bob", reserved, 1, signature).status = "ok"

-----------------------------------------------------------------------------
(* C12: cancelOrder from a caller other than order.maker is rejected with    *)
(* OnlyMakerCanCancel and leaves the cancellation flags as they were; a flag *)
(* becomes set only in a successful cancelOrder or cancelOrdersBatch sent by *)
(* the maker of the order of that commitment.                                *)
C12_NonMakerRejected ==
    \A sender \in Accounts, order \in Orders :
        sender # order.maker =>
            LET r == cancelOrder(Storage, sender, order) IN
            /\ r.status = "OnlyMakerCanCancel"
            /\ r.st = Storage

C12_CancelledByMakerOnly ==
    [][/\ (last'.fn = "cancelOrder" /\ last'.status # "ok") => UNCHANGED cancelledOrders
       /\ \A d \in Digests :
            (cancelledOrders'[d] /\ ~cancelledOrders[d]) =>
                /\ last'.fn \in {"cancelOrder", "cancelOrdersBatch"}
                /\ last'.status = "ok"
                /\ last'.sender = OrderOf(d).maker
                /\ \E e \in Events(last', "OrderCancelled") :
                        e.orderHash = d /\ e.maker = OrderOf(d).maker
    ]_vars

C12_OnlyMakerCancels == C12_CancelledByMakerOnly /\ []C12_NonMakerRejected

\* bob is refused the cancellation of alice's base order, which stays open,
\* after alice has cancelled another order of hers
C12_Witness ==
    /\ last.fn = "cancelOrder"
    /\ last.status = "OnlyMakerCanCancel"
    /\ last.sender = "bob"
    /\ cancelOrder(Storage, "bob", BaseOrder).status = "OnlyMakerCanCancel"
    /\ ~cancelledOrders[_orderHash(BaseOrder)]
    /\ cancelledOrders[_orderHash([BaseOrder EXCEPT !.salt = 1])]

-----------------------------------------------------------------------------
(* C13: a cancellation flag that is true stays true: no deposit, withdraw,   *)
(* fillOrder, fillOrdersBatch, cancelOrder or cancelOrdersBatch, and no      *)
(* passing of time, resets it.                                               *)
C13_CancellationPermanent ==
    [][\A d \in Digests : cancelledOrders[d] => cancelledOrders'[d]]_vars

\* the base order is still cancelled after a later successful withdrawal
C13_Witness ==
    /\ cancelledOrders[_orderHash(BaseOrder)]
    /\ last.fn = "withdraw"
    /\ last.status = "ok"
    /\ last.logs[1].amount > 0

-----------------------------------------------------------------------------
(* C14: cancelOrder by the maker on an order already cancelled succeeds, and *)
(* leaves the cancellation flags, the balances and the fill counters as the  *)
(* first cancellation left them; only the OrderCancelled event is logged     *)
(* again.                                                                    *)
C14_RepeatSucceeds ==
    \A order \in Orders :
        cancelledOrders[_orderHash(order)] =>
            LET r == cancelOrder(Storage, order.maker, order) IN
            /\ r.status = "ok"
            /\ r.st.cancelledOrders = cancelledOrders
            /\ r.st.balances = balances
            /\ r.st.filledAmountSell = filledAmountSell
            /\ r.st.erc20 = erc20
            /\ r.st.logs = <<[event |-> "OrderCancelled", orderHash |-> _orderHash(order),
                              maker |-> order.maker]>>

C14_RepeatChangesNothing ==
    [][(/\ last'.fn = "cancelOrder"
        /\ last'.status = "ok"
        /\ cancelledOrders[last'.logs[1].orderHash])
            => UNCHANGED <<balances, filledAmountSell, cancelledOrders, erc20>>
    ]_vars

C14_CancelIdempotent == C14_RepeatChangesNothing /\ []C14_RepeatSucceeds

\* alice's second call has succeeded on her base order, which a first
\* cancellation had marked, and a third would succeed as well
C14_Witness ==
    /\ calls = 2
    /\ last.fn = "cancelOrder"
    /\ last.status = "ok"
    /\ last.logs[1].orderHash = _orderHash(BaseOrder)
    /\ cancelledOrders[_orderHash(BaseOrder)]
    /\ cancelOrder(Storage, "alice", BaseOrder).status = "ok"
    /\ cancelOrder(Storage, "alice", BaseOrder).st.cancelledOrders = cancelledOrders

-----------------------------------------------------------------------------
\* the commitments of the orders of an array
HashesOf(orders) == {_orderHash(orders[i]) : i \in DOMAIN orders}

(* C15 as stated: cancelOrdersBatch is rejected with OnlyMakerCanCancel if   *)
(* any order of the array has maker # caller, and with TooManyOrders if the  *)
(* array holds more than MAX_BATCH_SIZE orders.                              *)
C15_AsStated ==
    \A sender \in Accounts, orders \in CancelBatches :
        LET r == cancelOrdersBatch(Storage, sender, orders) IN
        /\ (\E i \in DOMAIN orders : orders[i].maker # sender)
                => r.status = "OnlyMakerCanCancel"
        /\ Len(orders) > MAX_BATCH_SIZE => r.status = "TooManyOrders"

C15_BatchOutcome ==
    \A sender \in Accounts, orders \in CancelBatches :
        LET r == cancelOrdersBatch(Storage, sender, orders) IN
        IF Len(orders) > MAX_BATCH_SIZE
        THEN r.status = "TooManyOrders" /\ r.st = Storage
        ELSE IF \E i \in DOMAIN orders : orders[i].maker # sender
        THEN r.status = "OnlyMakerCanCancel"
        ELSE /\ r.status = "ok"
             /\ \A d \in Digests :
                    r.st.cancelledOrders[d] = (cancelledOrders[d] \/ d \in HashesOf(orders))

C15_RejectedBatchCancelsNothing ==
    [][last'.fn = "cancelOrdersBatch" =>
        IF last'.status = "ok"
        THEN \A e \in Events(last', "OrderCancelled") : cancelledOrders'[e.orderHash]
        ELSE /\ UNCHANGED <<balances, filledAmountSell, cancelledOrders, erc20>>
             /\ last'.logs = <<>>
    ]_vars

(* C15 amended: cancelOrdersBatch is rejected with TooManyOrders if the      *)
(* array holds more than MAX_BATCH_SIZE (5) orders, and otherwise with       *)
(* OnlyMakerCanCancel if any order of the array has maker # caller; in both  *)
(* cases no order of the array becomes cancelled, those placed before the    *)
(* offending one included.  When every maker is the caller and the length is *)
(* within the limit, every order of the array is cancelled and no other.     *)
C15_CancelBatch == C15_RejectedBatchCancelsNothing /\ []C15_BatchOutcome

\* alice's batch of her base order followed by an order of bob is rejected:
\* the loop had marked the base order, which is not cancelled
C15_Witness ==
    /\ last.fn = "cancelOrdersBatch"
    /\ last.status = "OnlyMakerCanCancel"
    /\ last.sender = "alice"
    /\ LET r == cancelOrdersBatch(Storage, "alice",
                                  <<BaseOrder, [BaseOrder EXCEPT !.maker = "bob"]>>)
       IN /\ r.status = "OnlyMakerCanCancel"
          /\ r.st.cancelledOrders[_orderHash(BaseOrder)]
    /\ ~cancelledOrders[_orderHash(BaseOrder)]
    /\ cancelledOrders[_orderHash([BaseOrder EXCEPT !.salt = 1])]

-----------------------------------------------------------------------------
\* the Orderbook holds, of every token, what its ledger owes
CustodyCoversLedger ==
    \A t \in Tokens : erc20[Orderbook][t] = LedgerTotal(balances, t)

(* C16: withdraw of a valid token succeeds exactly when                      *)
(* balances[caller][token] >= amount.  A successful call lowers that ledger  *)
(* entry by amount, leaves every other entry, counter and flag alone and     *)
(* moves amount of the token from the Orderbook to the caller; any other     *)
(* call fails with InsufficientBalance and changes nothing.                  *)
C16_WithdrawOutcome ==
    \A sender \in Accounts, token \in Tokens, amount \in Amounts :
        LET r == withdraw(Storage, sender, token, amount) IN
        IF balances[sender][token] >= amount
        THEN /\ r.status = "ok"
             /\ r.st.balances = [balances EXCEPT ![sender][token] = @ - amount]
             /\ r.st.erc20 = [[erc20 EXCEPT ![Orderbook][token] = @ - amount]
                                     EXCEPT ![sender][token] = @ + amount]
             /\ r.st.filledAmountSell = filledAmountSell
             /\ r.st.cancelledOrders = cancelledOrders
             /\ r.st.logs = <<[event |-> "Withdrawal", user |-> sender,
                               token |-> token, amount |-> amount]>>
        ELSE /\ r.status = "InsufficientBalance"
             /\ r.st = Storage

C16_FailedWithdrawUnchanged ==
    [][(last'.fn = "withdraw" /\ last'.status # "ok") =>
            /\ UNCHANGED <<balances, filledAmountSell, cancelledOrders, erc20>>
            /\ last'.logs = <<>>
    ]_vars

C16_Withdraw ==
    /\ C16_FailedWithdrawUnchanged
    /\ []CustodyCoversLedger
    /\ []C16_WithdrawOutcome

\* alice, who has withdrawn one token of three, is refused a withdrawal of
\* three and could still withdraw the two she has left
C16_Witness ==
    /\ last.fn = "withdraw"
    /\ last.status = "InsufficientBalance"
    /\ last.sender = "alice"
    /\ balances["alice"]["tokenA"] = 2
    /\ erc20["alice"]["tokenA"] = 1
    /\ withdraw(Storage, "alice", "tokenA", 3).status = "InsufficientBalance"
    /\ withdraw(Storage, "alice", "tokenA", 2).status = "ok"

-----------------------------------------------------------------------------
(* C17: deposit of the zero token address fails with InvalidTokenAddress,    *)
(* the error the specification calls InvalidAsset; a deposit whose token     *)
(* transfer fails changes no ledger entry; a successful deposit raises       *)
(* balances[caller][token] by amount and changes no other ledger entry, no   *)
(* fill counter and no cancellation flag.                                    *)
C17_DepositOutcome ==
    \A sender \in Accounts, token \in Assets, amount \in Amounts :
        LET r == deposit(Storage, sender, token, amount) IN
        IF token = ZeroAddress
        THEN r.status = "InvalidTokenAddress" /\ r.st = Storage
        ELSE IF erc20[sender][token] < amount
        THEN r.status = "TransferFailed" /\ r.st = Storage
        ELSE /\ r.status = "ok"
             /\ r.st.balances = [balances EXCEPT ![sender][token] = @ + amount]
             /\ r.st.erc20 = [[erc20 EXCEPT ![sender][token] = @ - amount]
                                     EXCEPT ![Orderbook][token] = @ + amount]
             /\ r.st.filledAmountSell = filledAmountSell
             /\ r.st.cancelledOrders = cancelledOrders

C17_DepositTransition ==
    [][last'.fn = "deposit" =>
        IF last'.status = "ok"
        THEN LET e == last'.logs[1] IN
             /\ balances' = [balances EXCEPT ![e.user][e.token] = @ + e.amount]
             /\ e.user = last'.sender
             /\ UNCHANGED <<filledAmountSell, cancelledOrders>>
        ELSE /\ UNCHANGED <<balances, filledAmountSell, cancelledOrders, erc20>>
             /\ last'.logs = <<>>
    ]_vars

C17_Deposit == C17_DepositTransition /\ []C17_DepositOutcome

\* alice, left with one token after a deposit of two, is refused a deposit of
\* two: the transfer fails and her ledger entry stays at two
C17_Witness ==
    /\ last.fn = "deposit"
    /\ last.status = "TransferFailed"
    /\ last.sender = "alice"
    /\ erc20["alice"]["tokenA"] = 1
    /\ balances["alice"]["tokenA"] = 2
    /\ deposit(Storage, "alice", "tokenA", 2).status = "TransferFailed"
    /\ deposit(Storage, "alice", "tokenA", 1).status = "ok"
    /\ deposit(Storage, "alice", ZeroAddress, 1).status = "InvalidTokenAddress"

-----------------------------------------------------------------------------
(* C18: a deposit succeeds, crediting the ledger and logging Deposit, only   *)
(* when its amount is strictly positive.  deposit has no test of the amount: *)
(* a deposit of 0 of a token succeeds and logs Deposit with amount 0.        *)
C18_AsStated ==
    \A sender \in Accounts, token \in Assets, amount \in Amounts :
        deposit(Storage, sender, token, amount).status = "ok" => amount > 0

-----------------------------------------------------------------------------
(* Repeated fills of one order.  alice has deposited the amountSell of an    *)
(* order of hers and bob its amountBuy; bob then fills the order piece by    *)
(* piece, by fillOrder and by fillOrdersBatch, until the calls run out.      *)
(* alice holds no tokenB at the start, so that balances["alice"]["tokenB"]   *)
(* is the total the fills have credited to the maker.                        *)
MaxAmountSell == 4
MaxAmountBuy == 10

RoundingOrders ==
    {[BaseOrder EXCEPT !.amountSell = s, !.amountBuy = b] :
        s \in 1..MaxAmountSell, b \in 1..MaxAmountBuy}

\* the order of the scenario: the one whose fill counter the storage holds
RoundingOrder ==
    CHOOSE o \in RoundingOrders : _orderHash(o) \in DOMAIN filledAmountSell

RoundingInit ==
    \E o \in RoundingOrders :
        /\ balances = [a \in Accounts |-> [t \in Assets |->
                IF a = "alice" /\ t = "tokenA" THEN o.amountSell
                ELSE IF a = "bob" /\ t = "tokenB" THEN o.amountBuy
                ELSE 0]]
        /\ erc20 = [h \in Holders |-> [t \in Tokens |->
                IF h = Orderbook /\ t = "tokenA" THEN o.amountSell
                ELSE IF h = Orderbook /\ t = "tokenB" THEN o.amountBuy
                ELSE 0]]
        /\ filledAmountSell = [d \in {_orderHash(o)} |-> 0]
        /\ cancelledOrders = [d \in {_orderHash(o)} |-> FALSE]
        /\ RelayStarted
        /\ now = 0
        /\ calls = 0
        /\ last = NoCall

RoundingFill ==
    /\ calls < MaxAmountSell
    /\ calls' = calls + 1
    /\ \E amountToFill \in 0..MaxAmountSell :
        LET o == RoundingOrder IN
        Commit("fillOrder", "bob",
               fillOrder(Storage, "bob", o, amountToFill, Sign("alice", _orderHash(o))))

RoundingFillBatch ==
    /\ calls < MaxAmountSell
    /\ calls' = calls + 1
    /\ \E a1 \in 1..MaxAmountSell, a2 \in 1..MaxAmountSell :
        LET o == RoundingOrder
            signature == Sign("alice", _orderHash(o))
        IN Commit("fillOrdersBatch", "bob",
                  fillOrdersBatch(Storage, "bob", <<o, o>>, <<a1, a2>>,
                                  <<signature, signature>>))

RoundingNext == RoundingFill \/ RoundingFillBatch

SpecRounding == RoundingInit /\ [][RoundingNext]_vars

\* what the fills of the order have credited to its maker, and sold for it
CreditedToMaker == balances["alice"]["tokenB"]
CumulativeFilled == filledAmountSell[_orderHash(RoundingOrder)]

(* C19: each successful fill of an order charges the taker, and credits the  *)
(* maker, floor(amountBuy * amountToFill / amountSell), which is 3 for       *)
(* amountSell = 3, amountBuy = 10, amountToFill = 1; after any sequence of   *)
(* fills the total credited to the maker is at most                          *)
(* floor(amountBuy * cumulativeFilled / amountSell), and it falls short of   *)
(* the exact share amountBuy * cumulativeFilled / amountSell by at most      *)
(* amountSell - 1.                                                           *)
C19_EachFillFloors ==
    [][(last'.fn \in {"fillOrder", "fillOrdersBatch"} /\ last'.status = "ok") =>
        LET o == RoundingOrder
            charged == [i \in DOMAIN last'.logs |->
                            CounterAmount(o, last'.logs[i].amountFilled)]
            total == IF Len(charged) = 1 THEN charged[1] ELSE charged[1] + charged[2]
        IN /\ balances'["alice"]["tokenB"] = balances["alice"]["tokenB"] + total
           /\ balances'["bob"]["tokenB"] = balances["bob"]["tokenB"] - total
    ]_vars

C19_FloorOfTenThirds ==
    /\ ProportionalBuyAmount([BaseOrder EXCEPT !.amountSell = 3, !.amountBuy = 10], 1) = 3
    /\ \A o \in RoundingOrders, amountToFill \in 0..MaxAmountSell :
        LET p == ProportionalBuyAmount(o, amountToFill) IN
        /\ p * o.amountSell <= o.amountBuy * amountToFill
        /\ o.amountBuy * amountToFill < (p + 1) * o.amountSell

C19_DustBounded ==
    LET o == RoundingOrder IN
    /\ CreditedToMaker <= CounterAmount(o, CumulativeFilled)
    /\ o.amountBuy * CumulativeFilled - o.amountSell * CreditedToMaker
            <= o.amountSell * (o.amountSell - 1)

C19_Rounding ==
    /\ C19_EachFillFloors
    /\ []C19_FloorOfTenThirds
    /\ []C19_DustBounded

\* the order selling 3 for 10 has been filled in three fills of 1: the maker
\* was credited 9, one short of the 10 of the exact share
C19_Witness ==
    /\ RoundingOrder.amountSell = 3
    /\ RoundingOrder.amountBuy = 10
    /\ calls = 3
    /\ last.fn = "fillOrder"
    /\ last.status = "ok"
    /\ last.logs[1].amountFilled = 1
    /\ CumulativeFilled = 3
    /\ CreditedToMaker = 9

-----------------------------------------------------------------------------
(* C20: once the fill counter of an order equals its amountSell, no later    *)
(* fillOrder call or fillOrdersBatch element for that order is accepted,     *)
(* whatever the amountToFill.  The fill executor rejects an amount only when *)
(* it is greater than what remains: a fill of 0 of a fully filled order is   *)
(* accepted, logs OrderFilled and leaves the counter where it was.           *)
C20_AsStated ==
    /\ \A sender \in Accounts, order \in Orders, amountToFill \in Amounts :
        \A signature \in SignaturesFor(order) :
            filledAmountSell[_orderHash(order)] = order.amountSell
                => fillOrder(Storage, sender, order, amountToFill, signature).status # "ok"
    /\ \A sender \in Accounts, b \in FillBatches :
        (\E i \in DOMAIN b.orders :
            filledAmountSell[_orderHash(b.orders[i])] = b.orders[i].amountSell)
            => fillOrdersBatch(Storage, sender, b.orders, b.amountsToFill,
                               b.signatures).status # "ok"

-----------------------------------------------------------------------------
(* Calls made from inside a token transfer.  The Orderbook accepts any       *)
(* non-zero token address, so a token may call back, from its transfer or    *)
(* transferFrom, into the Orderbook (a transfer hook); the call arrives      *)
(* while the nonReentrant guard of the outer deposit or withdraw is entered. *)
(* A hook makes at most one call, before or after the token balances move,   *)
(* and either passes a failure of its call on or swallows it.                *)
NoOrder == [BaseOrder EXCEPT !.maker = ZeroAddress]

HookCall(fn, sender, token, amount, order, when, bubble) ==
    [fn |-> fn, sender |-> sender, token |-> token, amount |-> amount,
     order |-> order, when |-> when, bubble |-> bubble]

HookCalls ==
    {HookCall("none", ZeroAddress, ZeroAddress, 0, NoOrder, "after", FALSE)}
    \cup {HookCall(fn, s, "tokenA", a, NoOrder, w, b) :
            fn \in {"deposit", "withdraw"}, s \in {"alice"}, a \in {1},
            w \in {"before", "after"}, b \in BOOLEAN}
    \cup {HookCall(fn, s, ZeroAddress, 1, BaseOrder, w, b) :
            fn \in {"fillOrder", "fillOrdersBatch", "cancelOrder", "cancelOrdersBatch"},
            s \in {"alice", "bob"}, w \in {"before", "after"}, b \in BOOLEAN}

\* a call that arrives while the guard is entered: the nonReentrant functions
\* revert, cancelOrder and cancelOrdersBatch carry no guard
ReentrantCall_Unguarded(st, c) ==
    IF c.fn = "none" THEN Continue(st)
    ELSE IF c.fn = "deposit" THEN deposit(st, c.sender, c.token, c.amount)
    ELSE IF c.fn = "withdraw" THEN withdraw(st, c.sender, c.token, c.amount)
    ELSE IF c.fn \in {"fillOrder", "fillOrdersBatch"}
    THEN Revert(st, "ReentrancyGuardReentrantCall")
    ELSE IF c.fn = "cancelOrder" THEN cancelOrder(st, c.sender, c.order)
    ELSE cancelOrdersBatch(st, c.sender, <<c.order>>)
ReentrantCall(st, c) ==
    IF c.fn = "none" THEN Continue(st)
    ELSE IF c.fn \in {"deposit", "withdraw", "fillOrder", "fillOrdersBatch"}
    THEN Revert(st, "ReentrancyGuardReentrantCall")
    ELSE IF c.fn = "cancelOrder" THEN cancelOrder(st, c.sender, c.order)
    ELSE cancelOrdersBatch(st, c.sender, <<c.order>>)

\* the hook: the writes of a failed call are undone; the failure is passed on
\* or swallowed
Hook(st, c) ==
    LET r == ReentrantCall(st, c) IN
    IF r.status = "ok" THEN r
    ELSE IF c.bubble THEN Revert(st, r.status)
    ELSE Continue(st)

MoveTokens(st, token, from, to, amount) ==
    [st EXCEPT !.erc20 = [[st.erc20 EXCEPT ![from][token] = @ - amount]
                                     EXCEPT ![to][token] = @ + amount]]

\* the storage the hook of a transfer runs on
HookView(st, token, from, to, amount, c) ==
    IF c.when = "before" THEN st ELSE MoveTokens(st, token, from, to, amount)

\* a transfer of a token with a hook
HookedTransfer(st, token, from, to, amount, c) ==
    IF st.erc20[from][token] < amount THEN Revert(st, "TransferFailed")
    ELSE
    LET h == Hook(HookView(st, token, from, to, amount, c), c) IN
    IF h.status # "ok" THEN h
    ELSE IF c.when = "before" THEN Continue(MoveTokens(h.st, token, from, to, amount))
    ELSE h

\* the storage at the transfer of a deposit or withdraw that reaches it
depositAtTransfer(st, sender, token, amount) == st
withdrawAtTransfer_NotYetDebited(st, sender, token, amount) == st

withdrawAtTransfer(st, sender, token, amount) ==
    [st EXCEPT !.balances[sender][token] = @ - amount]

depositHooked(st, sender, token, amount, c) ==
    IF token = ZeroAddress THEN Revert(st, "InvalidTokenAddress")
    ELSE
    LET t == HookedTransfer(depositAtTransfer(st, sender, token, amount),
                            token, sender, Orderbook, amount, c)
    IN
    IF t.status # "ok" THEN t
    ELSE IF t.st.balances[sender][token] + amount > MaxUint THEN Revert(t.st, PanicArithmetic)
    ELSE
    LET s1 == [t.st EXCEPT !.balances[sender][token] = @ + amount]
        s2 == [s1 EXCEPT !.logs = Append(@, [event |-> "Deposit", user |-> sender,
                                             token |-> token, amount |-> amount])]
    IN Continue(s2)

withdrawHooked(st, sender, token, amount, c) ==
    IF token = ZeroAddress THEN Revert(st, "InvalidTokenAddress")
    ELSE IF st.balances[sender][token] < amount THEN Revert(st, "InsufficientBalance")
    ELSE
    LET t == HookedTransfer(withdrawAtTransfer(st, sender, token, amount),
                            token, Orderbook, sender, amount, c)
    IN
    IF t.status # "ok" THEN t
    ELSE Continue([t.st EXCEPT !.logs = Append(@, [event |-> "Withdrawal", user |-> sender,
                                                   token |-> token, amount |-> amount])])

DepositHooked ==
    \E sender \in Accounts, token \in Assets, amount \in Amounts, c \in HookCalls :
        Transact("deposit", sender, depositHooked(Storage, sender, token, amount, c))

WithdrawHooked ==
    \E sender \in Accounts, token \in Assets, amount \in Amounts, c \in HookCalls :
        Transact("withdraw", sender, withdrawHooked(Storage, sender, token, amount, c))

ReentrantNext ==
    \/ DepositHooked
    \/ WithdrawHooked
    \/ FillOrder
    \/ FillOrdersBatch
    \/ CancelOrder
    \/ CancelOrdersBatch
    \/ Tick

SpecReentrant == Init /\ [][ReentrantNext]_vars

-----------------------------------------------------------------------------
\* on a storage, the ledger owes of no token more than the Orderbook holds
LedgerWithinCustody(st) ==
    \A t \in Tokens : LedgerTotal(st.balances, t) <= st.erc20[Orderbook][t]

(* C21: between calls the Orderbook holds of every token, from the deposits  *)
(* less the withdrawals, exactly the sum of the ledger entries of that       *)
(* token; while the token transfer of a deposit or withdraw is under way,    *)
(* before and after the tokens move and after a call made from the           *)
(* transfer, the sum of the ledger entries is not greater than what the      *)
(* Orderbook holds.                                                          *)
C21_DuringTransfer ==
    \A sender \in Accounts, token \in Tokens, amount \in Amounts, c \in HookCalls :
        /\ erc20[sender][token] >= amount =>
            LET v == HookView(depositAtTransfer(Storage, sender, token, amount),
                              token, sender, Orderbook, amount, c)
            IN LedgerWithinCustody(v) /\ LedgerWithinCustody(Hook(v, c).st)
        /\ balances[sender][token] >= amount =>
            LET v == HookView(withdrawAtTransfer(Storage, sender, token, amount),
                              token, Orderbook, sender, amount, c)
            IN LedgerWithinCustody(v) /\ LedgerWithinCustody(Hook(v, c).st)

C21_CustodyMatchesLedger == CustodyCoversLedger /\ C21_DuringTransfer

\* alice has withdrawn part of her tokens; in a further withdrawal the hook
\* that runs before the tokens move sees a ledger below what is held, the
\* one that runs after sees them equal
C21_Witness ==
    /\ last.fn = "withdraw"
    /\ last.status = "ok"
    /\ last.logs[1].amount > 0
    /\ balances["alice"]["tokenA"] = 1
    /\ \E c \in HookCalls :
        /\ c.when = "before"
        /\ LET v == HookView(withdrawAtTransfer(Storage, "alice", "tokenA", 1),
                             "tokenA", Orderbook, "alice", 1, c)
           IN LedgerTotal(v.balances, "tokenA") = v.erc20[Orderbook]["tokenA"] - 1
    /\ \E c \in HookCalls :
        /\ c.when = "after"
        /\ LET v == HookView(withdrawAtTransfer(Storage, "alice", "tokenA", 1),
                             "tokenA", Orderbook, "alice", 1, c)
           IN LedgerTotal(v.balances, "tokenA") = v.erc20[Orderbook]["tokenA"]

-----------------------------------------------------------------------------
GuardedFunctions == {"deposit", "withdraw", "fillOrder", "fillOrdersBatch"}

(* C22: withdraw lowers balances[caller][token] before the token transfer    *)
(* starts, so a call made from inside the transfer sees the entry already    *)
(* reduced; a withdraw, deposit, fillOrder or fillOrdersBatch made from      *)
(* there is rejected and changes nothing; and whatever a withdraw moves out  *)
(* to an account, with any call made from its transfer, is the amount taken  *)
(* off that account's ledger entry, which does not go below zero.            *)
C22_DebitedBeforeTransfer ==
    \A sender \in Accounts, token \in Tokens, amount \in Amounts, c \in HookCalls :
        balances[sender][token] >= amount =>
            LET v == HookView(withdrawAtTransfer(Storage, sender, token, amount),
                              token, Orderbook, sender, amount, c)
                inner == ReentrantCall(v, c)
                r == withdrawHooked(Storage, sender, token, amount, c)
            IN /\ v.balances[sender][token] = balances[sender][token] - amount
               /\ c.fn \in GuardedFunctions =>
                    inner.status = "ReentrancyGuardReentrantCall" /\ inner.st = v
               /\ r.status = "ok" =>
                    /\ r.st.balances[sender][token] = balances[sender][token] - amount
                    /\ r.st.erc20[sender][token] = erc20[sender][token] + amount
                    /\ \A a \in Accounts \ {sender} : r.st.erc20[a] = erc20[a]

C22_NoMoreThanCredited ==
    [][\A a \in Accounts, t \in Tokens :
        erc20'[a][t] > erc20[a][t] =>
            /\ erc20'[a][t] - erc20[a][t] = balances[a][t] - balances'[a][t]
            /\ balances'[a][t] >= 0
    ]_vars

C22_WithdrawReentrancy == C22_NoMoreThanCredited /\ []C22_DebitedBeforeTransfer

\* alice has withdrawn one token; the hook of a second withdrawal of one sees
\* her entry at one, its own withdraw is refused, and she is paid one
C22_Witness ==
    /\ last.fn = "withdraw"
    /\ last.status = "ok"
    /\ last.sender = "alice"
    /\ balances["alice"]["tokenA"] = 2
    /\ erc20["alice"]["tokenA"] = 1
    /\ \E c \in HookCalls :
        /\ c.fn = "withdraw" /\ c.sender = "alice" /\ ~c.bubble /\ c.when = "after"
        /\ LET v == HookView(withdrawAtTransfer(Storage, "alice", "tokenA", 1),
                             "tokenA", Orderbook, "alice", 1, c)
               r == withdrawHooked(Storage, "alice", "tokenA", 1, c)
           IN /\ v.balances["alice"]["tokenA"] = 1
              /\ ReentrantCall(v, c).status = "ReentrancyGuardReentrantCall"
              /\ r.status = "ok"
              /\ r.st.erc20["alice"]["tokenA"] = 2

-----------------------------------------------------------------------------
(* C23: while a deposit or withdraw is at its token transfer, none of        *)
(* deposit, withdraw, fillOrder, fillOrdersBatch, cancelOrder and            *)
(* cancelOrdersBatch is admitted: a call made from the transfer is rejected  *)
(* and changes nothing.  cancelOrder and cancelOrdersBatch carry no          *)
(* nonReentrant guard: called by the maker from the transfer they are        *)
(* admitted and set the cancellation flag.                                   *)
C23_AsStated ==
    \A sender \in Accounts, token \in Tokens, amount \in Amounts, c \in HookCalls :
        /\ (c.fn # "none" /\ erc20[sender][token] >= amount) =>
            LET v == HookView(depositAtTransfer(Storage, sender, token, amount),
                              token, sender, Orderbook, amount, c)
            IN ReentrantCall(v, c).status # "ok" /\ ReentrantCall(v, c).st = v
        /\ (c.fn # "none" /\ balances[sender][token] >= amount) =>
            LET v == HookView(withdrawAtTransfer(Storage, sender, token, amount),
                              token, Orderbook, sender, amount, c)
            IN ReentrantCall(v, c).status # "ok" /\ ReentrantCall(v, c).st = v

-----------------------------------------------------------------------------
\* the error kinds of the taxonomy, under the names the contract and its
\* libraries give them
ErrorTaxonomy ==
    {"InvalidTokenAddress", "ECDSAInvalidSignature", "ArrayLengthMismatch", "TooManyOrders",
     "NotAuthorizedTaker", "OnlyMakerCanCancel", "InvalidSignature",
     "OrderExpired", "OrderAlreadyCancelled", "InsufficientOrderRemaining",
     "InsufficientBalance", "MakerInsufficientBalance", "TakerInsufficientBalance",
     "TransferFailed"}

(* C24: every rejected deposit, withdraw, fillOrder, fillOrdersBatch,        *)
(* cancelOrder or cancelOrdersBatch fails with an error kind of the          *)
(* taxonomy, never with an arithmetic fault.  The fill executor divides by   *)
(* order.amountSell and multiplies amountBuy by amountToFill in checked      *)
(* arithmetic without a test of its own: an order with amountSell = 0, or    *)
(* with an amountBuy whose product overflows, is rejected with a Panic.      *)
C24_AsStated ==
    /\ \A sender \in Accounts, token \in Assets, amount \in Amounts :
        /\ deposit(Storage, sender, token, amount).status \in {"ok"} \cup ErrorTaxonomy
        /\ withdraw(Storage, sender, token, amount).status \in {"ok"} \cup ErrorTaxonomy
    /\ \A sender \in Accounts, order \in Orders :
        cancelOrder(Storage, sender, order).status \in {"ok"} \cup ErrorTaxonomy
    /\ \A sender \in Accounts, orders \in CancelBatches :
        cancelOrdersBatch(Storage, sender, orders).status \in {"ok"} \cup ErrorTaxonomy
    /\ \A sender \in Accounts, b \in FillBatches :
        fillOrdersBatch(Storage, sender, b.orders, b.amountsToFill, b.signatures).status
            \in {"ok"} \cup ErrorTaxonomy
    /\ \A sender \in Accounts, order \in Orders, amountToFill \in Amounts :
        \A signature \in SignaturesFor(order) :
            fillOrder(Storage, sender, order, amountToFill, signature).status
                \in {"ok"} \cup ErrorTaxonomy

-----------------------------------------------------------------------------
\* Orderbook.verifyOrder, a view function: it hashes the order as _orderHash
\* does and recovers the signer with ECDSA.recover, whose revert it does not catch
verifyOrder(order, signature) ==
    LET structHash == keccak256(<<ORDER_TYPEHASH,
                                  order.maker, order.taker,
                                  order.tokenSell, order.tokenBuy,
                                  order.amountSell, order.amountBuy,
                                  order.expiration, order.salt>>)
        digest == _hashTypedDataV4(structHash)
        recovered == recover(digest, signature)
    IN IF recovered.reverted
       THEN [status |-> "ECDSAInvalidSignature", result |-> FALSE]
       ELSE [status |-> "ok", result |-> (recovered.signer = order.maker)]

\* anyone calls the view at any time; the call writes nothing, and the receipt
\* keeps its arguments and what it returned
VerifyOrder ==
    \E sender \in Accounts, order \in Orders :
        \E signature \in SignaturesFor(order) :
            LET r == verifyOrder(order, signature) IN
            /\ last' = [fn |-> "verifyOrder", sender |-> sender, status |-> r.status,
                        logs |-> <<>>, order |-> order, signature |-> signature,
                        result |-> r.result]
            /\ UNCHANGED <<balances, filledAmountSell, cancelledOrders, erc20, now, calls>>
            /\ UNCHANGED relayVars

VerifyNext ==
    \/ VerifyOrder
    \/ Tick

SpecVerify == Init /\ [][VerifyNext]_vars

(* C25 as stated: verifyOrder returns the invalid result, without raising or *)
(* aborting, for a signature of malformed encoding, and for a well-formed    *)
(* signature reports valid exactly when the recovered signer is order.maker. *)
(* On a malformed signature ECDSA.recover reverts and verifyOrder with it.   *)
C25_AsStated ==
    last.fn = "verifyOrder" =>
        /\ last.status = "ok"
        /\ ~last.signature.wellFormed => last.result = FALSE
        /\ last.signature.wellFormed =>
                last.result = (recover(_orderHash(last.order), last.signature).signer
                                    = last.order.maker)

-----------------------------------------------------------------------------
(* C26: fillOrdersBatch is rejected with ArrayLengthMismatch when orders,    *)
(* amounts and signatures do not all have the same length, and with          *)
(* TooManyOrders when their common length is greater than MAX_BATCH_SIZE;    *)
(* both rejections come before any element is processed (whatever the        *)
(* elements are) and leave the state unchanged; a batch of exactly           *)
(* MAX_BATCH_SIZE fills that are each valid in their turn is accepted.       *)
SameLengths(b) ==
    /\ Len(b.orders) = Len(b.amountsToFill)
    /\ Len(b.orders) = Len(b.signatures)

C26_Rejections ==
    \A sender \in Accounts, b \in FillBatches :
        LET r == fillOrdersBatch(Storage, sender, b.orders, b.amountsToFill, b.signatures)
        IN /\ ~SameLengths(b) => (r.status = "ArrayLengthMismatch" /\ r.st = Storage)
           /\ (SameLengths(b) /\ Len(b.orders) > MAX_BATCH_SIZE)
                => (r.status = "TooManyOrders" /\ r.st = Storage)

C26_FullBatchAccepted ==
    \A sender \in Accounts, b \in FillBatches :
        (/\ SameLengths(b)
         /\ Len(b.orders) = MAX_BATCH_SIZE
         /\ \A i \in DOMAIN b.orders :
                LET pre == BeforeElement(sender, b, i) IN
                /\ pre.status = "ok"
                /\ _fillOrder(pre.st, sender, b.orders[i], b.amountsToFill[i],
                              b.signatures[i]).status = "ok")
            => LET r == fillOrdersBatch(Storage, sender, b.orders, b.amountsToFill,
                                        b.signatures)
               IN r.status = "ok" /\ Len(r.st.logs) = MAX_BATCH_SIZE

C26_RejectedUnchanged ==
    [][(last'.fn = "fillOrdersBatch"
        /\ last'.status \in {"ArrayLengthMismatch", "TooManyOrders"})
            => /\ UNCHANGED <<balances, filledAmountSell, cancelledOrders, erc20>>
               /\ last'.logs = <<>>
    ]_vars

C26_BatchLimits ==
    C26_RejectedUnchanged /\ [](C26_Rejections /\ C26_FullBatchAccepted)

\* a batch of MAX_BATCH_SIZE fills has been accepted
C26_Witness ==
    /\ last.fn = "fillOrdersBatch"
    /\ last.status = "ok"
    /\ Len(last.logs) = MAX_BATCH_SIZE

-----------------------------------------------------------------------------
(* Relay (orderbook-ws-server): the table of orders, the handlers of the     *)
(* WebSocket messages, the listeners of the contract's events with their     *)
(* retry queue, and the periodic expiry sweep.  Each handler is an operator  *)
(* on the table; the relay reads its own clock, which the model keeps equal  *)
(* to the block time.                                                        *)

MaxRelayTime == 2       \* the relay is followed until its clock reads MaxRelayTime
MaxRetryQueue == 1      \* events waiting in retryQueue at any one time

\* RetryConfig.maxRetries, the default set by the constructor of OrderbookContract
maxRetries == 5

\* the decimal string of a BigInt, as a sequence of digits
RECURSIVE toString(_)
toString(n) == IF n < 10 THEN <<n>> ELSE toString(n \div 10) \o <<n % 10>>

\* BigInt(string): the number a sequence of digits denotes, leading zeros allowed
RECURSIVE BigInt(_)
BigInt(s) ==
    IF Len(s) = 1 THEN s[1] ELSE 10 * BigInt(SubSeq(s, 1, Len(s) - 1)) + s[Len(s)]

\* the order struct that ethers encodes from the fields of an Order object
orderTuple(order) ==
    [maker |-> order.maker, taker |-> order.taker,
     tokenSell |-> order.tokenSell, tokenBuy |-> order.tokenBuy,
     amountSell |-> BigInt(order.amountSell), amountBuy |-> BigInt(order.amountBuy),
     expiration |-> order.expiration, salt |-> BigInt(order.salt)]

\* Orderbook.getOrderHash, the public wrapper of _orderHash
getOrderHash(order) == _orderHash(order)

\* validateOrder of utils/validation.ts: the payloads of the model have every
\* required field, with addresses, amounts and a signature of the accepted
\* format, so that the check of the expiration is the one that can fail
validateOrder(order, clock) ==
    IF ~(order.expiration > clock)
    THEN [isValid |-> FALSE, error |-> "Order is expired or has invalid expiration timestamp"]
    ELSE [isValid |-> TRUE, error |-> ""]

\* mutant: the signature is not verified against the contract
validateOrderPayload_FormatOnly(payload, clock) == validateOrder(payload, clock)

validateOrderPayload(payload, clock) ==
    LET validationResult == validateOrder(payload, clock) IN
    IF ~validationResult.isValid THEN validationResult
    ELSE
    LET isSignatureValid == verifyOrder(orderTuple(payload), payload.signature) IN
    IF isSignatureValid.status # "ok"
    THEN [isValid |-> FALSE, error |-> "Error validating signature"]
    ELSE IF ~isSignatureValid.result
    THEN [isValid |-> FALSE, error |-> "Invalid signature - does not match order data"]
    ELSE [isValid |-> TRUE, error |-> ""]

(* OrderService *)

\* the row that handleCreateOrder hands to createOrder: the fields of the
\* payload, with status, amountFilled and orderHash overwritten
OrderRow(payload, orderHash) ==
    [orderHash |-> orderHash,
     maker |-> payload.maker, taker |-> payload.taker,
     tokenSell |-> payload.tokenSell, tokenBuy |-> payload.tokenBuy,
     amountSell |-> payload.amountSell, amountBuy |-> payload.amountBuy,
     amountFilled |-> <<0>>,
     expiration |-> payload.expiration, salt |-> payload.salt,
     signature |-> payload.signature,
     status |-> "OPEN"]

\* OrderModel.create throws on a second row with the same orderHash (unique)
createOrder(table, order, clock) ==
    LET row == IF order.expiration <= clock THEN [order EXCEPT !.status = "EXPIRED"]
               ELSE order
    IN IF table[order.orderHash] # NoRecord
       THEN [threw |-> TRUE, table |-> table, order |-> row]
       ELSE [threw |-> FALSE, table |-> [table EXCEPT ![order.orderHash] = row],
             order |-> row]

getOrderByHash(table, orderHash) ==
    IF orderHash \in DOMAIN table THEN table[orderHash] ELSE NoRecord

\* mutant: the amount of the event is added to the stored amount
updateOrderFill_Accumulates(table, orderHash, amountFilled, status) ==
    IF getOrderByHash(table, orderHash) = NoRecord THEN table
    ELSE [table EXCEPT ![orderHash].amountFilled = toString(BigInt(@) + BigInt(amountFilled)),
                       ![orderHash].status = status]

updateOrderFill(table, orderHash, amountFilled, status) ==
    IF getOrderByHash(table, orderHash) = NoRecord THEN table
    ELSE [table EXCEPT ![orderHash].amountFilled = amountFilled,
                       ![orderHash].status = status]

OrderService_cancelOrder(table, orderHash) ==
    IF getOrderByHash(table, orderHash) = NoRecord THEN table
    ELSE [table EXCEPT ![orderHash].status = "CANCELLED"]

getActiveOrders(table, options, clock) ==
    {table[h] : h \in {d \in DOMAIN table :
                        /\ table[d] # NoRecord
                        /\ table[d].status \in {"OPEN", "PARTIALLY_FILLED"}
                        /\ table[d].expiration > clock
                        /\ options.maker \in {"undefined", table[d].maker}}}

updateExpiredOrders(table, clock) ==
    [h \in DOMAIN table |->
        IF /\ table[h] # NoRecord
           /\ table[h].expiration < clock
           /\ table[h].status \in {"OPEN", "PARTIALLY_FILLED"}
        THEN [table[h] EXCEPT !.status = "EXPIRED"]
        ELSE table[h]]

(* OrderbookWebSocketServer: the result of a handler is the table, the       *)
(* message sent to the client and the messages broadcast                     *)

ErrorMessage(errorMessage) == [type |-> "ERROR", payload |-> [error |-> errorMessage]]
OrderUpdate(payload) == [type |-> "ORDER_UPDATE", payload |-> payload]

handleCreateOrder(table, payload, clock) ==
    LET validationResult == validateOrderPayload(payload, clock) IN
    IF ~validationResult.isValid
    THEN [table |-> table, reply |-> ErrorMessage(validationResult.error), broadcast |-> <<>>]
    ELSE
    LET orderHash == getOrderHash(orderTuple(payload))
        created == createOrder(table, OrderRow(payload, orderHash), clock)
    IN IF created.threw
       THEN [table |-> table, reply |-> ErrorMessage("Failed to create order"),
             broadcast |-> <<>>]
       ELSE [table |-> created.table,
             reply |-> OrderUpdate([success |-> TRUE, order |-> created.order]),
             broadcast |-> <<OrderUpdate([order |-> created.order])>>]

handleCancelOrder(table, payload) ==
    IF "orderHash" \notin DOMAIN payload
    THEN [table |-> table, reply |-> ErrorMessage("Order hash is required"), broadcast |-> <<>>]
    ELSE IF getOrderByHash(table, payload.orderHash) = NoRecord
    THEN [table |-> table, reply |-> ErrorMessage("Order not found"), broadcast |-> <<>>]
    ELSE
    LET updated == OrderService_cancelOrder(table, payload.orderHash)
    IN [table |-> updated,
        reply |-> OrderUpdate([success |-> TRUE, order |-> updated[payload.orderHash]]),
        broadcast |-> <<>>]

\* the subscription filters on the first maker of the payload, if any
handleSubscribeOrders(table, payload, clock) ==
    LET filters == [maker |-> IF Len(payload.makers) > 0 THEN payload.makers[1]
                              ELSE "undefined"]
    IN [table |-> table,
        reply |-> OrderUpdate([success |-> TRUE,
                               orders |-> getActiveOrders(table, filters, clock)]),
        broadcast |-> <<>>]

(* OrderbookContract: the processing of the events of the contract *)

processOrderFilledEvent(table, orderHash, filler, amountFilled) ==
    LET order == getOrderByHash(table, orderHash) IN
    IF order = NoRecord THEN [table |-> table, emitted |-> <<>>]
    ELSE
    LET amountFilledStr == toString(amountFilled)
        orderAmountSell == BigInt(order.amountSell)
        newStatus == IF orderAmountSell <= amountFilled THEN "FILLED"
                     ELSE "PARTIALLY_FILLED"
        updated == updateOrderFill(table, orderHash, amountFilledStr, newStatus)
    IN [table |-> updated, emitted |-> <<OrderUpdate([order |-> updated[orderHash]])>>]

processOrderCancelledEvent(table, orderHash, maker) ==
    IF getOrderByHash(table, orderHash) = NoRecord THEN [table |-> table, emitted |-> <<>>]
    ELSE
    LET updated == OrderService_cancelOrder(table, orderHash)
    IN [table |-> updated, emitted |-> <<OrderUpdate([order |-> updated[orderHash]])>>]

\* the dispatch on the kind of the event
processEvent(table, e) ==
    IF e.event = "OrderFilled"
    THEN processOrderFilledEvent(table, e.orderHash, e.filler, e.amountFilled)
    ELSE processOrderCancelledEvent(table, e.orderHash, e.maker)

\* how the processing of an event ends: it completes, or the database or a
\* listener of 'orderUpdated' throws, before or after the row was saved
Outcomes == {"done", "throwsBeforeSave", "throwsAfterSave"}

Attempt(table, e, outcome) ==
    LET p == processEvent(table, e) IN
    IF outcome = "done" THEN p
    ELSE IF outcome = "throwsAfterSave" THEN p
    ELSE [table |-> table, emitted |-> <<>>]

\* the event is processed, and queued for a retry when its processing throws
processEventWithRetry(table, queue, e, outcome) ==
    LET a == Attempt(table, e, outcome) IN
    [table |-> a.table, emitted |-> a.emitted,
     queue |-> IF outcome = "done" THEN queue
               ELSE Append(queue, [event |-> e.event, data |-> e, retries |-> 0])]

RemoveAt(queue, i) == SubSeq(queue, 1, i - 1) \o SubSeq(queue, i + 1, Len(queue))

\* one item of the retry queue is due: it leaves the queue when its processing
\* completes, or when it has failed maxRetries times
processRetryQueue(table, queue, i, outcome) ==
    LET queueItem == queue[i]
        a == Attempt(table, queueItem.data, outcome)
    IN [table |-> a.table, emitted |-> a.emitted,
        queue |-> IF outcome = "done" THEN RemoveAt(queue, i)
                  ELSE IF queueItem.retries + 1 >= maxRetries THEN RemoveAt(queue, i)
                  ELSE [queue EXCEPT ![i].retries = @ + 1]]

(* Inputs of the relay *)

\* the order that reaches the relay and is filled or cancelled on the contract
ListedOrders == {BaseOrder}

\* what a client may add to its payload: nothing, or a status and a filled
\* amount of its own
ClientSet ==
    {[status |-> "undefined", amountFilled |-> "undefined"],
     [status |-> "FILLED", amountFilled |-> <<2>>]}

OrderPayload(o, amountSell, signature, extra) ==
    [maker |-> o.maker, taker |-> o.taker,
     tokenSell |-> o.tokenSell, tokenBuy |-> o.tokenBuy,
     amountSell |-> amountSell, amountBuy |-> toString(o.amountBuy),
     expiration |-> o.expiration, salt |-> toString(o.salt),
     signature |-> signature,
     status |-> extra.status, amountFilled |-> extra.amountFilled]

\* the payloads of CREATE_ORDER: the listed order, the tampered order or an
\* expired one, with each signature a client can present and with the amount
\* written with or without a leading zero
CreatePayloads ==
    UNION {{OrderPayload(o, amountSell, signature, extra) :
                amountSell \in {toString(o.amountSell), <<0>> \o toString(o.amountSell)},
                signature \in SignaturesFor(o), extra \in ClientSet} :
           o \in ListedOrders \cup {TamperedOrder, [BaseOrder EXCEPT !.expiration = 0]}}

CancelPayloads ==
    {[orderHash |-> _orderHash(o)] : o \in ListedOrders}
        \cup {[orderHash |-> keccak256(<<>>)], [reason |-> "none"]}

SubscribePayloads == {[makers |-> <<>>], [makers |-> <<"alice">>], [makers |-> <<"bob">>]}

Clients == {"client"}

(* The relay beside the contract *)

RelayInit == Init /\ Funded

\* a message of a client has been handled
Handled(type, client, r) ==
    /\ ordersTable' = r.table
    /\ last' = [fn |-> type, sender |-> client, status |-> r.reply.type,
                logs |-> r.broadcast, reply |-> r.reply.payload]
    /\ UNCHANGED <<balances, filledAmountSell, cancelledOrders, erc20, now, calls,
                   eventQueue, retryQueue>>
    /\ UNCHANGED connectionVars

CreateOrderMessage ==
    \E client \in Clients, payload \in CreatePayloads :
        Handled("CREATE_ORDER", client, handleCreateOrder(ordersTable, payload, now))

CancelOrderMessage ==
    \E client \in Clients, payload \in CancelPayloads :
        Handled("CANCEL_ORDER", client, handleCancelOrder(ordersTable, payload))

SubscribeOrdersMessage ==
    \E client \in Clients, payload \in SubscribePayloads :
        Handled("SUBSCRIBE_ORDERS", client, handleSubscribeOrders(ordersTable, payload, now))

\* a transaction is mined and the provider queues its logs for the listeners
Observed(fn, sender, r) ==
    /\ calls < MaxCalls
    /\ calls' = calls + 1
    /\ Mined(fn, sender, r)
    /\ eventQueue' = eventQueue \o last'.logs
    /\ UNCHANGED <<ordersTable, retryQueue>>
    /\ UNCHANGED connectionVars

ObservedFillOrder ==
    \E sender \in Accounts, order \in ListedOrders, amountToFill \in 1..MaxAmount :
        Observed("fillOrder", sender,
                 fillOrder(Storage, sender, order, amountToFill,
                           Sign(order.maker, _orderHash(order))))

ObservedCancelOrder ==
    \E sender \in Accounts, order \in ListedOrders :
        Observed("cancelOrder", sender, cancelOrder(Storage, sender, order))

\* the listener registered by startListening receives the oldest queued event
ListenerEvent ==
    /\ eventQueue # <<>>
    /\ \E outcome \in Outcomes :
        LET e == Head(eventQueue)
            r == processEventWithRetry(ordersTable, retryQueue, e, outcome)
        IN /\ outcome # "done" => Len(retryQueue) < MaxRetryQueue
           /\ ordersTable' = r.table
           /\ retryQueue' = r.queue
           /\ eventQueue' = Tail(eventQueue)
           /\ last' = [fn |-> e.event, sender |-> "listener", status |-> outcome,
                       logs |-> r.emitted, event |-> e]
    /\ UNCHANGED <<balances, filledAmountSell, cancelledOrders, erc20, now, calls>>
    /\ UNCHANGED connectionVars

\* the retry processor takes an item of the retry queue that is due
RetryEvent ==
    /\ \E i \in DOMAIN retryQueue, outcome \in Outcomes :
        LET r == processRetryQueue(ordersTable, retryQueue, i, outcome)
        IN /\ ordersTable' = r.table
           /\ retryQueue' = r.queue
           /\ last' = [fn |-> retryQueue[i].event, sender |-> "processRetryQueue",
                       status |-> outcome, logs |-> r.emitted,
                       event |-> retryQueue[i].data]
    /\ UNCHANGED <<balances, filledAmountSell, cancelledOrders, erc20, now, calls,
                   eventQueue>>
    /\ UNCHANGED connectionVars

\* the expiry check that index.ts schedules
ExpirySweep ==
    /\ ordersTable' = updateExpiredOrders(ordersTable, now)
    /\ last' = [fn |-> "updateExpiredOrders", sender |-> "setInterval", status |-> "ok",
                logs |-> <<>>]
    /\ UNCHANGED <<balances, filledAmountSell, cancelledOrders, erc20, now, calls,
                   eventQueue, retryQueue>>
    /\ UNCHANGED connectionVars

RelayTick ==
    /\ now < MaxRelayTime
    /\ now' = now + 1
    /\ last' = NoCall
    /\ UNCHANGED <<balances, filledAmountSell, cancelledOrders, erc20, calls>>
    /\ UNCHANGED relayVars

RelayNext ==
    \/ CreateOrderMessage
    \/ CancelOrderMessage
    \/ SubscribeOrdersMessage
    \/ ObservedFillOrder
    \/ ObservedCancelOrder
    \/ ListenerEvent
    \/ RetryEvent
    \/ ExpirySweep
    \/ RelayTick

SpecRelay == RelayInit /\ [][RelayNext]_vars

\* the rows of the table
Stored == {d \in DOMAIN ordersTable : ordersTable[d] # NoRecord}

-----------------------------------------------------------------------------
(* C27: the relay stores and broadcasts an order received in CREATE_ORDER    *)
(* only after the contract's verifyOrder reported that the signer is         *)
(* order.maker, and keys the row by the hash the contract derives from the   *)
(* order fields; a CREATE_ORDER whose signature was not made by order.maker  *)
(* is answered with ERROR and creates no row.                                *)
PayloadSignedByMaker(payload) ==
    /\ payload.signature.wellFormed
    /\ payload.signature.signer = payload.maker
    /\ payload.signature.digest = _orderHash(orderTuple(payload))

C27_RowsVerified ==
    \A d \in Stored :
        LET row == ordersTable[d] IN
        /\ row.orderHash = d
        /\ d = _orderHash(orderTuple(row))
        /\ verifyOrder(orderTuple(row), row.signature) = [status |-> "ok", result |-> TRUE]
        /\ PayloadSignedByMaker(row)

C27_UnsignedRefused ==
    \A payload \in CreatePayloads :
        LET r == handleCreateOrder(ordersTable, payload, now) IN
        ~PayloadSignedByMaker(payload) =>
            /\ r.reply.type = "ERROR"
            /\ r.table = ordersTable
            /\ r.broadcast = <<>>

C27_StoredOnCreate ==
    [][\A d \in DOMAIN ordersTable :
        (ordersTable[d] = NoRecord /\ ordersTable'[d] # NoRecord) =>
            /\ last'.fn = "CREATE_ORDER"
            /\ last'.status = "ORDER_UPDATE"
            /\ last'.reply.order = ordersTable'[d]
            /\ last'.logs = <<OrderUpdate([order |-> ordersTable'[d]])>>
            /\ PayloadSignedByMaker(ordersTable'[d])
    ]_vars

C27_BroadcastOnCreate ==
    [][(last'.fn = "CREATE_ORDER" /\ last'.logs # <<>>) =>
            \E d \in DOMAIN ordersTable : ordersTable[d] = NoRecord /\ ordersTable'[d] # NoRecord
    ]_vars

C27_CreateVerified ==
    /\ C27_StoredOnCreate
    /\ C27_BroadcastOnCreate
    /\ [](C27_RowsVerified /\ C27_UnsignedRefused)

\* the base order has been stored and broadcast on a CREATE_ORDER
C27_Witness ==
    /\ last.fn = "CREATE_ORDER"
    /\ last.status = "ORDER_UPDATE"
    /\ _orderHash(BaseOrder) \in Stored
    /\ Len(last.logs) = 1

-----------------------------------------------------------------------------
(* C28 as stated: the status of a stored row changes only when the relay     *)
(* processes an OrderFilled or OrderCancelled event of the contract or when  *)
(* its expiry sweep finds the expiration passed; no CREATE_ORDER,            *)
(* CANCEL_ORDER or SUBSCRIBE_ORDERS message changes the status of a row, and *)
(* a new row starts OPEN (EXPIRED by the relay's clock), whatever status the *)
(* payload carried.  handleCancelOrder sets the row to CANCELLED on the      *)
(* client's message alone.                                                   *)
C28_AsStated ==
    [][\A d \in DOMAIN ordersTable :
        /\ (/\ ordersTable[d] # NoRecord
            /\ ordersTable'[d] # NoRecord
            /\ ordersTable'[d].status # ordersTable[d].status)
                => last'.fn \in {"OrderFilled", "OrderCancelled", "updateExpiredOrders"}
        /\ (ordersTable[d] = NoRecord /\ ordersTable'[d] # NoRecord)
                => /\ ordersTable'[d].status \in {"OPEN", "EXPIRED"}
                   /\ ordersTable'[d].status = "EXPIRED" => ordersTable'[d].expiration <= now
    ]_vars

-----------------------------------------------------------------------------
(* C29: applying the same event of the contract (same orderHash, same kind,  *)
(* same arguments) to the relay's table a second time, as happens when the   *)
(* event is retried after its first processing threw once the row had been   *)
(* saved, leaves the table exactly as after applying it once.                *)

\* the events the contract can emit for the orders of the model
ContractEvents ==
    {[event |-> "OrderFilled", orderHash |-> d, filler |-> a, amountFilled |-> n] :
        d \in Digests, a \in {"bob"}, n \in Amounts}
    \cup {[event |-> "OrderCancelled", orderHash |-> d, maker |-> OrderOf(d).maker] :
            d \in Digests}

C29_SecondApplication ==
    \A e \in ContractEvents :
        LET once == processEvent(ordersTable, e).table
        IN processEvent(once, e).table = once

\* a retry that directly follows the first processing of its event, which had
\* saved the row before it threw, changes nothing
C29_RetryAfterSave ==
    [][(/\ last.sender = "listener"
        /\ last.status = "throwsAfterSave"
        /\ last'.sender = "processRetryQueue"
        /\ last'.event = last.event)
            => ordersTable' = ordersTable
    ]_vars

C29_EventIdempotent == C29_RetryAfterSave /\ []C29_SecondApplication

\* an OrderFilled event was applied, its processing threw after the save, and
\* the retry processor has applied it again
C29_Witness ==
    /\ last.sender = "processRetryQueue"
    /\ last.status = "done"
    /\ last.fn = "OrderFilled"
    /\ last.event.orderHash \in Stored
    /\ ordersTable[last.event.orderHash].amountFilled = toString(last.event.amountFilled)
    /\ retryQueue = <<>>

-----------------------------------------------------------------------------
(* C30 as stated: after the relay has processed, in emission order, all      *)
(* OrderFilled events of an order it stores, the row's amountFilled equals   *)
(* filledAmountSell of that orderHash on the contract, and its status is     *)
(* FILLED exactly when that counter equals amountSell and PARTIALLY_FILLED   *)
(* exactly when the counter is positive and below amountSell.  Stated for    *)
(* one event: when the row agrees with the counter as it was before the      *)
(* only unprocessed event, an OrderFilled of that order, and the listener    *)
(* processes this event, the row agrees with the counter again.  The relay   *)
(* stores the amount of the last fill, which OrderFilled carries, as the     *)
(* filled total.                                                             *)
C30_AsStated ==
    [][\A d \in Stored :
        LET e == Head(eventQueue)
            counter == filledAmountSell[d]
            row == ordersTable'[d]
        IN (/\ Len(eventQueue) = 1
            /\ retryQueue = <<>>
            /\ e.event = "OrderFilled"
            /\ e.orderHash = d
            /\ BigInt(ordersTable[d].amountFilled) = counter - e.amountFilled
            /\ last'.sender = "listener"
            /\ last'.status = "done")
                => /\ BigInt(row.amountFilled) = counter
                   /\ row.status = "FILLED" <=> counter = BigInt(row.amountSell)
                   /\ row.status = "PARTIALLY_FILLED"
                        <=> (0 < counter /\ counter < BigInt(row.amountSell))
    ]_vars

-----------------------------------------------------------------------------
(* C31 as stated: when several rejection conditions hold for the same        *)
(* fillOrder call, the error reported is the first one in the order          *)
(* OrderExpired, NotAuthorizedTaker, OrderAlreadyCancelled,                  *)
(* InvalidSignature, InsufficientOrderRemaining, MakerInsufficientBalance,   *)
(* TakerInsufficientBalance.  The product amountBuy * amountToFill is        *)
(* computed, in checked arithmetic, before the two balances are compared.    *)

\* the rejection conditions of a call, as the specification words them, with
\* their errors, in the order of the claim
RejectionConditions(sender, order, amountToFill, signature) ==
    LET digest == _orderHash(order) IN
    << [error |-> "OrderExpired", holds |-> now > order.expiration],
       [error |-> "NotAuthorizedTaker",
        holds |-> order.taker # ZeroAddress /\ order.taker # sender],
       [error |-> "OrderAlreadyCancelled", holds |-> cancelledOrders[digest]],
       [error |-> "InvalidSignature",
        holds |-> signature.wellFormed /\ signature # Sign(order.maker, digest)],
       [error |-> "InsufficientOrderRemaining",
        holds |-> amountToFill > order.amountSell - filledAmountSell[digest]],
       [error |-> "MakerInsufficientBalance",
        holds |-> balances[order.maker][order.tokenSell] < amountToFill],
       [error |-> "TakerInsufficientBalance",
        holds |-> /\ order.amountSell > 0
                  /\ balances[sender][order.tokenBuy] < CounterAmount(order, amountToFill)] >>

FirstError(conditions) ==
    conditions[CHOOSE i \in DOMAIN conditions :
                    /\ conditions[i].holds
                    /\ \A j \in 1..(i - 1) : ~conditions[j].holds].error

C31_AsStated ==
    \A sender \in Accounts, order \in Orders, amountToFill \in Amounts :
        \A signature \in SignaturesFor(order) :
            LET conditions == RejectionConditions(sender, order, amountToFill, signature)
                held == {i \in DOMAIN conditions : conditions[i].holds}
            IN (signature.wellFormed /\ Cardinality(held) >= 2) =>
                    fillOrder(Storage, sender, order, amountToFill, signature).status
                        = FirstError(conditions)

-----------------------------------------------------------------------------
\* fillOrder called for the elements i, i + 1, ... of a batch, one transaction
\* after the other by the same caller at the same time; the logs of the
\* transactions are collected
RECURSIVE SingleFills(_, _, _, _)
SingleFills(st, sender, b, i) ==
    IF i > Len(b.orders) THEN Continue(st)
    ELSE
    LET r == fillOrder([st EXCEPT !.logs = <<>>], sender, b.orders[i], b.amountsToFill[i],
                       b.signatures[i])
    IN IF r.status # "ok" THEN r
       ELSE SingleFills([r.st EXCEPT !.logs = st.logs \o @], sender, b, i + 1)

BatchIsSequence(sender, b) ==
    LET batch == fillOrdersBatch(Storage, sender, b.orders, b.amountsToFill, b.signatures)
        singles == SingleFills(Storage, sender, b, 1)
    IN /\ batch.status = "ok" <=> singles.status = "ok"
       /\ batch.status = "ok" => batch.st = singles.st

(* C32 as stated: a fillOrdersBatch call succeeds exactly when calling       *)
(* fillOrder for its elements one after the other in array order, by the     *)
(* same caller at the same time, would succeed for every element, and then   *)
(* leaves the state of that sequence.                                        *)
C32_AsStated ==
    \A sender \in Accounts, b \in FillBatches : SameLengths(b) => BatchIsSequence(sender, b)

(* C32: a fillOrdersBatch call of at most MAX_BATCH_SIZE elements, in arrays *)
(* of equal length, succeeds exactly when calling fillOrder for its elements *)
(* one after the other in array order, by the same caller at the same time,  *)
(* would succeed for every element, each element being checked against the   *)
(* state left by the elements before it; on success the resulting state      *)
(* (balances, fill counters, flags, and the events logged) is the one of     *)
(* that sequence of single fills.                                            *)
C32_BatchIsSequence ==
    \A sender \in Accounts, b \in FillBatches :
        WellFormedBatch(b) => BatchIsSequence(sender, b)

\* a batch that lists the same order twice has been accepted
C32_Witness ==
    /\ last.fn = "fillOrdersBatch"
    /\ last.status = "ok"
    /\ Len(last.logs) = 2
    /\ last.logs[1].orderHash = last.logs[2].orderHash
    /\ filledAmountSell[last.logs[1].orderHash]
            >= last.logs[1].amountFilled + last.logs[2].amountFilled

-----------------------------------------------------------------------------
(* C33: a successful fillOrder changes no ledger entry other than            *)
(* (maker, tokenSell), (maker, tokenBuy), (caller, tokenSell) and            *)
(* (caller, tokenBuy), no fill counter other than the one of the order's     *)
(* commitment, and no cancellation flag; cancelOrder and cancelOrdersBatch   *)
(* change no balance and no fill counter; deposit and withdraw change no     *)
(* fill counter and no cancellation flag.                                    *)
C33_FillFrame ==
    [][(last'.fn = "fillOrder" /\ last'.status = "ok") =>
        LET e == last'.logs[1]
            order == OrderOf(e.orderHash)
            touched == {<<order.maker, order.tokenSell>>, <<order.maker, order.tokenBuy>>,
                        <<last'.sender, order.tokenSell>>, <<last'.sender, order.tokenBuy>>}
        IN /\ \A a \in Accounts, t \in Assets :
                <<a, t>> \notin touched => balances'[a][t] = balances[a][t]
           /\ \A d \in Digests :
                d # e.orderHash => filledAmountSell'[d] = filledAmountSell[d]
           /\ cancelledOrders' = cancelledOrders
    ]_vars

C33_CancelFrame ==
    [][last'.fn \in {"cancelOrder", "cancelOrdersBatch"} =>
            /\ balances' = balances
            /\ filledAmountSell' = filledAmountSell
    ]_vars

C33_LedgerFrame ==
    [][last'.fn \in {"deposit", "withdraw"} =>
            /\ filledAmountSell' = filledAmountSell
            /\ cancelledOrders' = cancelledOrders
    ]_vars

C33_Frames == C33_FillFrame /\ C33_CancelFrame /\ C33_LedgerFrame

\* a fill of the salt sibling of the base order, after a fill of the base
\* order, has left carol's entries and the counter of the base order alone
C33_Witness ==
    /\ last.fn = "fillOrder"
    /\ last.status = "ok"
    /\ last.logs[1].orderHash = _orderHash([BaseOrder EXCEPT !.salt = 1])
    /\ filledAmountSell[_orderHash(BaseOrder)] > 0
    /\ filledAmountSell[last.logs[1].orderHash] = last.logs[1].amountFilled

-----------------------------------------------------------------------------
(* C34: for every commitment the fill counter is non-decreasing over every   *)
(* sequence of operations: it starts at zero, changes only by a successful   *)
(* fill of that order, single or in a batch, by exactly amountToFill, and is *)
(* never decreased, reset or deleted, including by a cancellation and by a   *)
(* failed batch.                                                             *)

\* the amounts of the OrderFilled events of a receipt that name the commitment
RECURSIVE FilledInLogs(_, _)
FilledInLogs(logs, d) ==
    IF logs = <<>> THEN 0
    ELSE (IF Head(logs).event = "OrderFilled" /\ Head(logs).orderHash = d
          THEN Head(logs).amountFilled ELSE 0) + FilledInLogs(Tail(logs), d)

C34_StartsAtZero ==
    calls = 0 => \A d \in Digests : filledAmountSell[d] = 0

C34_ChangesByFills ==
    [][/\ DOMAIN filledAmountSell' = DOMAIN filledAmountSell
       /\ \A d \in Digests :
            /\ filledAmountSell'[d] >= filledAmountSell[d]
            /\ filledAmountSell'[d] = filledAmountSell[d] + FilledInLogs(last'.logs, d)
            /\ filledAmountSell'[d] # filledAmountSell[d] =>
                    /\ last'.fn \in {"fillOrder", "fillOrdersBatch"}
                    /\ last'.status = "ok"
    ]_vars

C34_CounterMonotonic == C34_ChangesByFills /\ []C34_StartsAtZero

\* a partly filled order has been cancelled and its counter stands
C34_Witness ==
    /\ last.fn \in {"cancelOrder", "cancelOrdersBatch"}
    /\ last.status = "ok"
    /\ cancelledOrders[_orderHash(BaseOrder)]
    /\ filledAmountSell[_orderHash(BaseOrder)] > 0

-----------------------------------------------------------------------------
(* Orders that name the zero address as a token.  Nothing in fillOrder     *)
(* looks at tokenSell or tokenBuy, so a maker can sign such an order and a  *)
(* taker can present it.                                                    *)

InvalidAssetOrders ==
    {[BaseOrder EXCEPT !.tokenSell = ZeroAddress],
     [BaseOrder EXCEPT !.tokenBuy = ZeroAddress],
     [BaseOrder EXCEPT !.tokenBuy = ZeroAddress, !.amountBuy = 0],
     [BaseOrder EXCEPT !.tokenSell = ZeroAddress, !.tokenBuy = ZeroAddress],
     [BaseOrder EXCEPT !.tokenSell = ZeroAddress, !.amountBuy = 0]}

InvalidAssetDigests == {_orderHash(o) : o \in InvalidAssetOrders}

InvalidAssetRequests ==
    {[order |-> o, amountToFill |-> a, signature |-> Sign(o.maker, _orderHash(o))] :
        o \in InvalidAssetOrders, a \in 0..1}

InvalidAssetInit ==
    /\ Deployed \/ Funded
    /\ RelayStarted
    /\ filledAmountSell = [d \in Digests \cup InvalidAssetDigests |-> 0]
    /\ cancelledOrders = [d \in Digests \cup InvalidAssetDigests |-> FALSE]
    /\ now = 0
    /\ calls = 0
    /\ last = NoCall

FillInvalidAssetOrder ==
    \E sender \in Accounts, order \in InvalidAssetOrders, amountToFill \in Amounts :
        Transact("fillOrder", sender,
                 fillOrder(Storage, sender, order, amountToFill,
                           Sign(order.maker, _orderHash(order))))

FillInvalidAssetBatch ==
    \E sender \in Accounts, b \in SeqsUpTo(InvalidAssetRequests \cup BatchRequests, MaxBatchLen) :
        /\ \E i \in DOMAIN b : b[i].order \in InvalidAssetOrders
        /\ Transact("fillOrdersBatch", sender,
                    fillOrdersBatch(Storage, sender, OrdersOf(b), AmountsOf(b), SignaturesOf(b)))

InvalidAssetNext ==
    \/ Deposit
    \/ Withdraw
    \/ FillOrder
    \/ FillOrdersBatch
    \/ CancelOrder
    \/ CancelOrdersBatch
    \/ Tick
    \/ FillInvalidAssetOrder
    \/ FillInvalidAssetBatch

SpecInvalidAsset == InvalidAssetInit /\ [][InvalidAssetNext]_vars

(* C35: in every reachable state balances[account][zero address] is 0 for  *)
(* every account: deposit rejects the zero address, so no fill and no       *)
(* batch, whatever tokenSell and tokenBuy the signed orders name, ever      *)
(* moves a positive quantity of the invalid asset.                          *)
C35_InvalidAssetEmpty ==
    \A account \in Accounts : balances[account][ZeroAddress] = 0

\* an order that names the zero address as tokenBuy has been filled for a
\* positive amount
C35_Witness ==
    /\ last.fn \in {"fillOrder", "fillOrdersBatch"}
    /\ last.status = "ok"
    /\ \E i \in DOMAIN last.logs, o \in InvalidAssetOrders :
            /\ last.logs[i].event = "OrderFilled"
            /\ last.logs[i].orderHash = _orderHash(o)
            /\ o.tokenBuy = ZeroAddress
            /\ last.logs[i].amountFilled > 0

-----------------------------------------------------------------------------
(* Overlapping runs of the retry processor                                  *)
(*                                                                          *)
(* setInterval calls the async processRetryQueue every 5 s and does not     *)
(* wait for the previous call: while one run awaits the processing of an    *)
(* entry, the next run iterates the same Map and finds the same entry.      *)
(* Each run holds the queueItem object it read; a failed attempt increments *)
(* the counter of that object and puts a copy of it under the eventId, or   *)
(* deletes the eventId.  retryRuns.objects are the queueItem objects made   *)
(* for the queued event, .current the one the Map holds (0: none),          *)
(* .awaiting the objects held by the runs that await, .retried the number   *)
(* of 'Retrying ...' lines logged for the event.  The scenarios queue one   *)
(* event at a time.                                                         *)

MaxRetryRuns == 2

\* the part of a run before its await: the entry is due, the attempt is logged
startRetry(runs) ==
    [runs EXCEPT !.awaiting = Append(@, runs.current), !.retried = @ + 1]

\* the part of a run after its await, for the k-th of the awaiting runs
finishRetry(table, runs, k, outcome) ==
    LET o == runs.awaiting[k]
        queueItem == runs.objects[o]
        a == Attempt(table, queueItem.data, outcome)
        failed == [queueItem EXCEPT !.retries = @ + 1]
        kept == outcome # "done" /\ failed.retries < maxRetries
        objects1 == IF outcome = "done" THEN runs.objects
                    ELSE [runs.objects EXCEPT ![o] = failed]
        objects2 == IF kept THEN Append(objects1, failed) ELSE objects1
    IN [table |-> a.table, emitted |-> a.emitted,
        runs |-> [objects |-> objects2,
                  current |-> IF kept THEN Len(objects2) ELSE 0,
                  awaiting |-> RemoveAt(runs.awaiting, k),
                  retried |-> runs.retried]]

\* the Map of the retry queue, as the runs leave it
QueueOf(runs) == IF runs.current = 0 THEN <<>> ELSE <<runs.objects[runs.current]>>

\* the listener receives the oldest queued event; a failed one is queued when
\* the retry queue is empty and no run awaits
OverlapListenerEvent ==
    /\ eventQueue # <<>>
    /\ \E outcome \in Outcomes :
        LET e == Head(eventQueue)
            r == processEventWithRetry(ordersTable, retryQueue, e, outcome)
        IN /\ outcome # "done" => retryQueue = <<>> /\ retryRuns.awaiting = <<>>
           /\ ordersTable' = r.table
           /\ retryQueue' = r.queue
           /\ retryRuns' = IF outcome = "done" THEN retryRuns
                           ELSE [objects |-> r.queue, current |-> 1,
                                 awaiting |-> <<>>, retried |-> 0]
           /\ eventQueue' = Tail(eventQueue)
           /\ last' = [fn |-> e.event, sender |-> "listener", status |-> outcome,
                       logs |-> r.emitted, event |-> e]
    /\ UNCHANGED <<balances, filledAmountSell, cancelledOrders, erc20, now, calls, server>>

\* a run of processRetryQueue reaches the await for the queued entry
StartRetry ==
    /\ retryRuns.current # 0
    /\ Len(retryRuns.awaiting) < MaxRetryRuns
    /\ retryRuns' = startRetry(retryRuns)
    /\ last' = [fn |-> retryQueue[1].event, sender |-> "processRetryQueue",
                status |-> "awaiting", logs |-> <<>>, event |-> retryQueue[1].data]
    /\ UNCHANGED <<balances, filledAmountSell, cancelledOrders, erc20, now, calls,
                   ordersTable, eventQueue, retryQueue, server>>

\* the processing that a run awaits completes or throws
FinishRetry ==
    /\ \E k \in DOMAIN retryRuns.awaiting, outcome \in Outcomes :
        LET r == finishRetry(ordersTable, retryRuns, k, outcome)
            queueItem == retryRuns.objects[retryRuns.awaiting[k]]
        IN /\ ordersTable' = r.table
           /\ retryRuns' = r.runs
           /\ retryQueue' = QueueOf(r.runs)
           /\ last' = [fn |-> queueItem.event, sender |-> "processRetryQueue",
                       status |-> outcome, logs |-> r.emitted, event |-> queueItem.data]
    /\ UNCHANGED <<balances, filledAmountSell, cancelledOrders, erc20, now, calls,
                   eventQueue, server>>

OverlapNext ==
    \/ ObservedFillOrder
    \/ ObservedCancelOrder
    \/ OverlapListenerEvent
    \/ StartRetry
    \/ FinishRetry

SpecRetryOverlap == RelayInit /\ [][OverlapNext]_vars

\* the timer keeps firing and every awaited processing ends
SpecRetryOverlapFair ==
    SpecRetryOverlap /\ WF_vars(StartRetry) /\ WF_vars(FinishRetry)

(* C36: an event whose processing keeps failing is retried from the retry   *)
(* queue at most maxRetries times, also when a run of the queue processor   *)
(* starts while a previous run is still awaiting.                           *)
C36_AsStated ==
    retryRuns.retried <= maxRetries

\* every event placed in the retry queue is eventually removed from it
C36_EventuallyRemoved ==
    (retryQueue # <<>>) ~> (retryQueue = <<>>)

\* only the listener puts an event into the retry queue: an entry that a
\* retry removed does not come back
C36_RemovedForGood ==
    [][(retryQueue = <<>> /\ retryQueue' # <<>>) => last'.sender = "listener"]_vars

-----------------------------------------------------------------------------
(* The WebSocket server: connections, heartbeat, rate limits, subscriptions *)
(*                                                                          *)
(* server.clients holds, for each socket, its readyState, whether the       *)
(* 'connection' handler accepted it (and so registered its 'pong',          *)
(* 'message' and 'close' handlers), and the fields of ExtendedWebSocket.    *)
(* A Set is kept as the sequence of its entries in insertion order.         *)

DefaultMaxConnectionsPerIP == 5
DefaultMaxMessagesPerIP == 30
ServerTickSeconds == 10
MaxServerTicks == 1

IPs == {"10.0.0.1"}

\* Date.now() in ms
DateNow(clock) == clock * 1000

Min(a, b) == IF a < b THEN a ELSE b

\* RateLimiter.allowRequest: the answer and the limiter after the call
allowRequest(limiter, key, clock) ==
    IF key \notin DOMAIN limiter.buckets
    THEN [allowed |-> TRUE,
          limiter |-> [limiter EXCEPT !.buckets =
                        @ @@ (key :> [tokens |-> limiter.maxTokens, lastRefill |-> clock])]]
    ELSE
    LET bucket == limiter.buckets[key]
        timeElapsed == clock - bucket.lastRefill
        tokensToAdd == (timeElapsed * limiter.refillRate) \div (limiter.refillInterval * 10)
        refilled == IF tokensToAdd > 0
                    THEN [tokens |-> Min(limiter.maxTokens, bucket.tokens + tokensToAdd),
                          lastRefill |-> clock]
                    ELSE bucket
    IN IF refilled.tokens > 0
       THEN [allowed |-> TRUE,
             limiter |-> [limiter EXCEPT !.buckets[key] =
                            [refilled EXCEPT !.tokens = @ - 1]]]
       ELSE [allowed |-> FALSE, limiter |-> [limiter EXCEPT !.buckets[key] = refilled]]

\* the 'connection' handler of setupEventListeners for socket s
onConnection(srv, s, ip, clock) ==
    LET limited == allowRequest(srv.connectionLimiter, ip, DateNow(clock))
        srv1 == [srv EXCEPT !.connectionLimiter = limited.limiter]
        terminated == [NoSocket EXCEPT !.readyState = "CLOSING", !.ip = ip]
    IN
    IF ~limited.allowed
    THEN [server |-> [srv1 EXCEPT !.clients[s] = terminated],
          reply |-> ErrorMessage("Too many connection attempts. Please try again later.")]
    ELSE IF srv1.activeConnections >= srv1.maxConnections
    THEN [server |-> [srv1 EXCEPT !.clients[s] = terminated],
          reply |-> ErrorMessage("Server connection limit reached. Please try again later.")]
    ELSE [server |-> [srv1 EXCEPT !.activeConnections = @ + 1,
                                  !.clients[s] = [NoSocket EXCEPT !.readyState = "OPEN",
                                                                  !.accepted = TRUE,
                                                                  !.ip = ip,
                                                                  !.isAlive = "true"]],
          reply |-> [type |-> "none"]]

\* mutant: the 'close' handler is registered before the limits are checked
onClose_Always(srv, s) ==
    [srv EXCEPT !.activeConnections = @ - 1, !.clients[s] = NoSocket]

\* the socket emits 'close': the handler, if one was registered, runs once
onClose(srv, s) ==
    IF srv.clients[s].accepted
    THEN [srv EXCEPT !.activeConnections = @ - 1, !.clients[s] = NoSocket]
    ELSE [srv EXCEPT !.clients[s] = NoSocket]

onPong(srv, s) == [srv EXCEPT !.clients[s].isAlive = "true"]

\* ping(): every socket of wss.clients that did not answer the previous ping
\* is terminated, the others are pinged
ping(srv) ==
    [srv EXCEPT !.clients = [s \in DOMAIN @ |->
        IF @[s].readyState = "CLOSED" THEN @[s]
        ELSE IF @[s].isAlive = "false" THEN [@[s] EXCEPT !.readyState = "CLOSING"]
        ELSE [@[s] EXCEPT !.isAlive = "false"]]]

\* new Set(array): the entries of the array, each once, in the order of
\* their first occurrence
RECURSIVE NewSet(_)
NewSet(array) ==
    IF array = <<>> THEN <<>>
    ELSE LET front == NewSet(SubSeq(array, 1, Len(array) - 1))
             x == array[Len(array)]
         IN IF \E i \in DOMAIN front : front[i] = x THEN front ELSE Append(front, x)

\* a field of a payload: an array, or anything else (absent, a string)
Array(items) == [isArray |-> TRUE, items |-> items]
NotAnArray == [isArray |-> FALSE, items |-> <<>>]

\* mutant: a subscription longer than subscriptionLimit is cut to the limit
subscribed_Limited(srv, current, array) ==
    IF array.isArray
    THEN SubSeq(NewSet(array.items), 1, Min(Len(NewSet(array.items)), srv.subscriptionLimit))
    ELSE current

\* the subscription set after a SUBSCRIBE_ORDERS message that names array
subscribed(srv, current, array) ==
    IF array.isArray THEN NewSet(array.items) ELSE current

\* handleSubscribeOrders on the socket: the three sets, then the active orders
\* that match the first entry of each set
subscribeOrders(srv, table, s, payload, clock) ==
    LET ws == srv.clients[s]
        ws1 == [ws EXCEPT !.subscribedMakers = subscribed(srv, @, payload.makers),
                          !.subscribedTokens.sell = subscribed(srv, @, payload.tokensSell),
                          !.subscribedTokens.buy = subscribed(srv, @, payload.tokensBuy)]
        byMaker == handleSubscribeOrders(table, [makers |-> ws1.subscribedMakers], clock)
        orders == {o \in byMaker.reply.payload.orders :
                    /\ ws1.subscribedTokens.sell # <<>> => o.tokenSell = ws1.subscribedTokens.sell[1]
                    /\ ws1.subscribedTokens.buy # <<>> => o.tokenBuy = ws1.subscribedTokens.buy[1]}
    IN [server |-> [srv EXCEPT !.clients[s] = ws1],
        table |-> table,
        reply |-> OrderUpdate([success |-> TRUE, orders |-> orders])]

\* the 'message' handler of the socket: the message limiter, then the dispatch
\* of handleClientMessage
onMessage(srv, table, s, message, clock) ==
    LET limited == allowRequest(srv.messageLimiter, srv.clients[s].ip, DateNow(clock))
        srv1 == [srv EXCEPT !.messageLimiter = limited.limiter]
    IN
    IF ~limited.allowed
    THEN [server |-> srv1, table |-> table,
          reply |-> ErrorMessage("Message rate limit exceeded. Please slow down.")]
    ELSE IF message.type = "SUBSCRIBE_ORDERS"
    THEN subscribeOrders(srv1, table, s, message.payload, clock)
    ELSE IF message.type = "CREATE_ORDER"
    THEN LET r == handleCreateOrder(table, message.payload, clock)
         IN [server |-> srv1, table |-> r.table, reply |-> r.reply]
    ELSE IF message.type = "CANCEL_ORDER"
    THEN LET r == handleCancelOrder(table, message.payload)
         IN [server |-> srv1, table |-> r.table, reply |-> r.reply]
    ELSE [server |-> srv1, table |-> table,
          reply |-> ErrorMessage("Unsupported message type")]

\* the arrays a SUBSCRIBE_ORDERS payload names: none, or up to one entry more
\* than the limit, or an entry twice
Subscribable == <<"alice", "bob", "carol", Stranger, Orderbook>>
SubscriptionArrays ==
    {NotAnArray, Array(<<>>), Array(<<"alice">>), Array(<<"alice", "alice">>),
     Array(SubSeq(Subscribable, 1, SUBSCRIPTION_LIMIT + 1))}

ServerMessages ==
    {[type |-> "SUBSCRIBE_ORDERS",
      payload |-> [makers |-> m, tokensSell |-> t, tokensBuy |-> NotAnArray]] :
        m \in SubscriptionArrays, t \in {NotAnArray, Array(<<"tokenA", "tokenB">>)}}
    \cup {[type |-> "CANCEL_ORDER", payload |-> [reason |-> "none"]],
          [type |-> "PING", payload |-> [reason |-> "none"]]}

ServerStep(fn, s, status, reply) ==
    /\ last' = [fn |-> fn, sender |-> "socket", status |-> status, logs |-> <<>>,
                reply |-> reply, socket |-> s]
    /\ UNCHANGED <<balances, filledAmountSell, cancelledOrders, erc20, calls,
                   eventQueue, retryQueue, retryRuns>>

Connection ==
    \E s \in Sockets, ip \in IPs :
        /\ server.clients[s].readyState = "CLOSED"
        /\ LET r == onConnection(server, s, ip, now)
           IN /\ server' = r.server
              /\ ServerStep("connection", s, r.server.clients[s].readyState, r.reply)
        /\ UNCHANGED <<ordersTable, now>>

\* the client closes the socket, or the socket the server terminated is gone
Close ==
    \E s \in Sockets :
        /\ server.clients[s].readyState # "CLOSED"
        /\ server' = onClose(server, s)
        /\ ServerStep("close", s, server.clients[s].readyState,
                      [type |-> "none", handler |-> server.clients[s].accepted])
        /\ UNCHANGED <<ordersTable, now>>

Pong ==
    \E s \in Sockets :
        /\ server.clients[s].readyState = "OPEN"
        /\ server.clients[s].accepted
        /\ server.clients[s].isAlive = "false"
        /\ server' = onPong(server, s)
        /\ ServerStep("pong", s, "OPEN", [type |-> "none"])
        /\ UNCHANGED <<ordersTable, now>>

Ping ==
    /\ server' = ping(server)
    /\ ServerStep("ping", 0, "ok", [type |-> "none"])
    /\ UNCHANGED <<ordersTable, now>>

Message ==
    \E s \in Sockets, message \in ServerMessages :
        /\ server.clients[s].readyState = "OPEN"
        /\ server.clients[s].accepted
        /\ LET r == onMessage(server, ordersTable, s, message, now)
           IN /\ server' = r.server
              /\ ordersTable' = r.table
              /\ ServerStep(message.type, s, r.reply.type, r.reply)
        /\ UNCHANGED now

ServerTick ==
    /\ now < MaxServerTicks * ServerTickSeconds
    /\ now' = now + ServerTickSeconds
    /\ last' = NoCall
    /\ UNCHANGED <<balances, filledAmountSell, cancelledOrders, erc20, calls>>
    /\ UNCHANGED relayVars

ServerNext ==
    \/ Connection
    \/ Close
    \/ Pong
    \/ Ping
    \/ Message
    \/ ServerTick

SpecServer == RelayInit /\ [][ServerNext]_vars

\* the number of calls that allowRequest allows among n calls for the key,
\* one after the other at the same time
RECURSIVE AllowedCalls(_, _, _, _)
AllowedCalls(limiter, key, clock, n) ==
    IF n = 0 THEN 0
    ELSE LET r == allowRequest(limiter, key, clock)
         IN (IF r.allowed THEN 1 ELSE 0) + AllowedCalls(r.limiter, key, clock, n - 1)

\* the keys of the limiters: the remote address of the request, or 'unknown'
Keys == IPs \cup {"10.0.0.2", "unknown"}

\* the limiters of the server, as configured and with the default sizes
Limiters ==
    {server.connectionLimiter, server.messageLimiter,
     [server.connectionLimiter EXCEPT !.maxTokens = DefaultMaxConnectionsPerIP],
     [server.messageLimiter EXCEPT !.maxTokens = DefaultMaxMessagesPerIP]}

TokensInRange(limiter) ==
    \A key \in DOMAIN limiter.buckets : limiter.buckets[key].tokens \in 0..limiter.maxTokens

(* C37: for every key of a RateLimiter, starting from a key never seen       *)
(* before and with no time elapsing between the calls, allowRequest returns  *)
(* true for at most maxTokens calls (30 messages, 5 connection attempts per  *)
(* IP with the defaults); the tokens of every bucket stay in 0..maxTokens.   *)
C37_AsStated ==
    \A limiter \in Limiters :
        /\ TokensInRange(limiter)
        /\ \A key \in Keys :
                key \notin DOMAIN limiter.buckets
                    => AllowedCalls(limiter, key, DateNow(now), limiter.maxTokens + 2)
                            <= limiter.maxTokens

\* what the code does: the call that creates the bucket is allowed and takes
\* no token, so maxTokens + 1 calls are allowed; the tokens stay in range
C37_OneMoreAllowed ==
    /\ TokensInRange(server.connectionLimiter)
    /\ TokensInRange(server.messageLimiter)
    /\ \A limiter \in Limiters, key \in Keys :
            key \notin DOMAIN limiter.buckets
                => AllowedCalls(limiter, key, DateNow(now), limiter.maxTokens + 2)
                        = limiter.maxTokens + 1

-----------------------------------------------------------------------------
(* C38: in every reachable state of the relay activeConnections is the      *)
(* number of accepted connections that have not yet closed, so it lies in   *)
(* 0..maxConnections: a connection rejected by the per-IP limiter or by the *)
(* total limit is not counted on arrival nor subtracted when it closes, and *)
(* a connection ended by the heartbeat is subtracted exactly once.          *)

\* the accepted sockets whose 'close' event has not been emitted
AcceptedOpen ==
    {s \in Sockets : server.clients[s].accepted /\ server.clients[s].readyState # "CLOSED"}

C38_CountsAccepted ==
    /\ server.activeConnections = Cardinality(AcceptedOpen)
    /\ server.activeConnections \in 0..server.maxConnections

C38_CountedOnce ==
    [][/\ (last'.fn = "connection" /\ last'.status = "CLOSING")
            => server'.activeConnections = server.activeConnections
       /\ (last'.fn = "connection" /\ last'.status = "OPEN")
            => server'.activeConnections = server.activeConnections + 1
       /\ last'.fn = "ping" => server'.activeConnections = server.activeConnections
       /\ last'.fn = "close" =>
            server'.activeConnections =
                IF last'.reply.handler THEN server.activeConnections - 1
                ELSE server.activeConnections
    ]_vars

C38_ActiveConnections == []C38_CountsAccepted /\ C38_CountedOnce

\* a socket that the heartbeat terminated has closed while a rejected socket
\* is still closing
C38_Witness ==
    /\ last.fn = "close"
    /\ last.status = "CLOSING"
    /\ last.reply.handler
    /\ \E s \in Sockets :
            ~server.clients[s].accepted /\ server.clients[s].readyState = "CLOSING"

-----------------------------------------------------------------------------
(* C39: a client can subscribe to at most SUBSCRIPTION_LIMIT tokens or      *)
(* makers: after any sequence of SUBSCRIBE_ORDERS messages none of its      *)
(* subscribedMakers, subscribedTokens.sell and subscribedTokens.buy sets    *)
(* holds more than subscriptionLimit entries.                               *)
C39_AsStated ==
    \A s \in Sockets :
        /\ Len(server.clients[s].subscribedMakers) <= server.subscriptionLimit
        /\ Len(server.clients[s].subscribedTokens.sell) <= server.subscriptionLimit
        /\ Len(server.clients[s].subscribedTokens.buy) <= server.subscriptionLimit

\* what the code does: a SUBSCRIBE_ORDERS message replaces each set it names
\* by the entries of the array, whatever their number
C39_SetsReplaced ==
    [][\A s \in Sockets :
        (last'.fn = "SUBSCRIBE_ORDERS" /\ last'.socket = s /\ last'.status = "ORDER_UPDATE")
            => \E message \in ServerMessages :
                /\ message.type = "SUBSCRIBE_ORDERS"
                /\ message.payload.makers.isArray =>
                        server'.clients[s].subscribedMakers = NewSet(message.payload.makers.items)
                /\ ~message.payload.makers.isArray =>
                        server'.clients[s].subscribedMakers = server.clients[s].subscribedMakers
                /\ message.payload.tokensSell.isArray =>
                        server'.clients[s].subscribedTokens.sell
                            = NewSet(message.payload.tokensSell.items)
    ]_vars

-----------------------------------------------------------------------------
(* C40: once the relay's record of an order has status FILLED or CANCELLED, *)
(* no later processed event of the contract, no retry taken from the retry  *)
(* queue and no expiry sweep changes the record to a different status.      *)

Terminal(row) == row # NoRecord /\ row.status \in {"FILLED", "CANCELLED"}

C40_AsStated ==
    [][\A d \in Digests :
        (/\ Terminal(ordersTable[d])
         /\ \/ last'.sender \in {"listener", "processRetryQueue"}
            \/ last'.fn = "updateExpiredOrders")
            => ordersTable'[d].status = ordersTable[d].status
    ]_vars

\* what the code does: the expiry sweep leaves a FILLED or CANCELLED record
\* alone, the processing of an event does not look at the status it replaces
C40_SweepKeepsTerminal ==
    [][\A d \in Digests :
        (Terminal(ordersTable[d]) /\ last'.fn = "updateExpiredOrders")
            => ordersTable'[d] = ordersTable[d]
    ]_vars

====
